---- MODULE Spec2Model ----
(***************************************************************************)
(* A model of the rzstd Zstandard decompressor: the frame / block state    *)
(* machine of Decoder::decode (crates/rzstd_decompress/src/decoder.rs),    *)
(* the sliding window (window.rs), the per-frame context (context.rs) and  *)
(* the sequence executor (sequence_execution.rs).                          *)
(*                                                                         *)
(* Sizes are scaled down so that the window buffer is a few cells long;    *)
(* the order MIN_WINDOW_SIZE < CHUNK < MAX_BLOCK_SIZE and the ratio        *)
(* CHUNK = MAX_BLOCK_SIZE / 2 of the source are kept.                      *)
(***************************************************************************)
EXTENDS Integers, Sequences, FiniteSets, TLC

\* ------------------------------------------------------------------------
\* Program constants (scaled) and bounds of the model
\* ------------------------------------------------------------------------

\* lib.rs:24  MAX_BLOCK_SIZE = 128 * 1024, scaled to 4
MAX_BLOCK_SIZE == 4

\* decoder.rs:10  CHUNK = 64 * 1024, scaled to MAX_BLOCK_SIZE / 2
CHUNK == 2

\* lib.rs:19  MIN_WINDOW_SIZE = 0x400, scaled to 1
MIN_WINDOW_SIZE == 1

\* lib.rs:20  MAX_WINDOW_SIZE = 128 MiB, scaled to 3
MAX_WINDOW_SIZE == 3

\* length of the window buffer the caller hands to Decoder::new (dst.len())
BufLen == 6

\* the most frames decode starts on one input stream, and the most blocks
\* of one frame
MaxFrames == 2
MaxBlocks == 2

\* the byte values an input stream is made of
ByteVals == {0, 1}

\* the window sizes a frame header can announce
WindowSizeInputs == 0 .. (MAX_WINDOW_SIZE + 1)

\* ------------------------------------------------------------------------
\* Helpers
\* ------------------------------------------------------------------------

Min(a, b) == IF a <= b THEN a ELSE b

\* saturating_sub on usize
SatSub(a, b) == IF a >= b THEN a - b ELSE 0

\* buf[a..b] of a buffer indexed from 0, as a sequence
Slice(buf, a, b) == [i \in 1 .. (b - a) |-> buf[a + i - 1]]

\* all sequences over S of length exactly n
SeqsOfLen(S, n) == [1 .. n -> S]

\* the last n elements of a sequence (all of it when it is shorter)
LastN(s, n) == IF Len(s) <= n THEN s ELSE SubSeq(s, Len(s) - n + 1, Len(s))

IsPrefix(s, t) == Len(s) <= Len(t) /\ SubSeq(t, 1, Len(s)) = s

\* ------------------------------------------------------------------------
\* Window (window.rs).  A window is [buf, size, index]; buf is indexed
\* from 0 as in the source.
\* ------------------------------------------------------------------------

BufLenOf(w) == Cardinality(DOMAIN w.buf)

\* <[u8]>::copy_within(from..to, dest): a memmove inside buf
SliceCopyWithin(buf, from, to, dest) ==
    [i \in DOMAIN buf |->
        IF i >= dest /\ i < dest + (to - from) THEN buf[from + (i - dest)] ELSE buf[i]]

\* <[u8]>::copy_from_slice(data) on buf[at .. at + len(data)]
SliceCopyFrom(buf, at, data) ==
    [i \in DOMAIN buf |->
        IF i >= at /\ i < at + Len(data) THEN data[i - at + 1] ELSE buf[i]]

\* <[u8]>::fill(byte) on buf[at .. at + count]
SliceFill(buf, at, count, byte) ==
    [i \in DOMAIN buf |-> IF i >= at /\ i < at + count THEN byte ELSE buf[i]]

\* Window::new
WindowNew(buf, size) == [buf |-> buf, size |-> size, index |-> 0]

\* Window::reset: the assertion buf.len() >= size + MAX_BLOCK_SIZE
WindowResetAssert(w, size) == BufLenOf(w) >= size + MAX_BLOCK_SIZE

\* Window::reset, once the assertion has passed
WindowReset(w, size) == [w EXCEPT !.size = size, !.index = 0]

\* a shift that moves the index without moving the bytes
ShiftLeavesBytes(w) ==
    IF w.index <= w.size
    THEN w
    ELSE [w EXCEPT !.index = w.size]

\* Window::shift
Shift(w) ==
    IF w.index <= w.size
    THEN w
    ELSE [w EXCEPT !.buf = SliceCopyWithin(w.buf, w.index - w.size, w.index, 0),
                   !.index = w.size]

\* the guard in front of every shift: if self.index + len > self.buf.len()
NeedsShift(w, len) == w.index + len > BufLenOf(w)

\* the window after the conditional shift that opens every append
Prepared(w, len) == IF NeedsShift(w, len) THEN Shift(w) ELSE w

\* the most shifts the history of a frame counts
MaxShifts == 2

\* the conditional shift that opens an append of len bytes moves the
\* window: shift() is called and does not return early (index > size)
Shifted(w, len) == NeedsShift(w, len) /\ w.index > w.size

\* the count of shifts after an append of len bytes to w has been prepared
ShiftsAfter(n, w, len) == IF Shifted(w, len) THEN Min(n + 1, MaxShifts) ELSE n

\* the slice buf[index .. index + len] taken after the shift is in bounds
\* (the source panics when it is not)
InBounds(w, len) == Prepared(w, len).index + len <= BufLenOf(w)

\* Window::as_slice
AsSlice(w) == Slice(w.buf, 0, w.index)

\* Window::read_from, with the bytes that read_exact delivers
ReadFrom(w, data) ==
    LET s == Prepared(w, Len(data))
    IN  [s EXCEPT !.buf = SliceCopyFrom(s.buf, s.index, data),
                  !.index = s.index + Len(data)]

\* Window::push_buf
PushBuf(w, data) ==
    LET s == Prepared(w, Len(data))
    IN  [s EXCEPT !.buf = SliceCopyFrom(s.buf, s.index, data),
                  !.index = s.index + Len(data)]

\* Window::push_rle
PushRle(w, byte, count) ==
    LET s == Prepared(w, count)
    IN  [s EXCEPT !.buf = SliceFill(s.buf, s.index, count, byte),
                  !.index = s.index + count]

\* the while loop of Window::copy_within (the doubling copy)
RECURSIVE DoublingCopy(_, _, _, _)
DoublingCopy(buf, index, copied, n_bytes) ==
    IF copied < n_bytes
    THEN LET copy_len == Min(copied, n_bytes - copied)
         IN  DoublingCopy(SliceCopyWithin(buf, index, index + copy_len, index + copied),
                          index, copied + copy_len, n_bytes)
    ELSE buf

\* the bound check of Window::copy_within, on the window after its shift
CopyAvailable(w, n_bytes) ==
    LET s == Prepared(w, n_bytes) IN Min(s.index, s.size)

\* a bound check that compares the offset with the index alone
CopyRejectsAgainstIndex(w, offset, n_bytes) ==
    offset = 0 \/ offset > Prepared(w, n_bytes).index

\* the test of Window::copy_within that returns CopiedSizeOutOfBounds
CopyRejects(w, offset, n_bytes) ==
    offset = 0 \/ offset > CopyAvailable(w, n_bytes)

\* a copy that is a single memmove whatever the offset
CopyBranchesOneMove(s, offset, n_bytes) ==
    LET start == s.index - offset
    IN  SliceCopyWithin(s.buf, start, start + n_bytes, s.index)

\* the three copy branches of Window::copy_within on a window s that has
\* already been shifted and has passed the bound check
CopyBranches(s, offset, n_bytes) ==
    LET start == s.index - offset
    IN  IF offset >= n_bytes
        THEN SliceCopyWithin(s.buf, start, start + n_bytes, s.index)
        ELSE IF offset = 1
        THEN SliceFill(s.buf, s.index, n_bytes, s.buf[start])
        ELSE LET initial_copy == Min(offset, n_bytes)
             IN  DoublingCopy(SliceCopyWithin(s.buf, start, start + initial_copy, s.index),
                              s.index, initial_copy, n_bytes)

\* Window::copy_within: the window it leaves (on an error: the window after
\* the shift, nothing appended)
CopyWithin(w, offset, n_bytes) ==
    LET s == Prepared(w, n_bytes)
    IN  IF CopyRejects(w, offset, n_bytes)
        THEN s
        ELSE [s EXCEPT !.buf = CopyBranches(s, offset, n_bytes),
                       !.index = s.index + n_bytes]


\* The window as its readers see it: as_slice and copy_within read below
\* index only, so the bytes at index and above are forgotten (kept at 0)
\* in the state.
Live(w) == [w EXCEPT !.buf = [i \in DOMAIN w.buf |-> IF i < w.index THEN w.buf[i] ELSE 0]]


\* ------------------------------------------------------------------------
\* State
\* ------------------------------------------------------------------------

VARIABLES
    pc,             \* where Decoder::decode / Context stands
    err,            \* the error (or panic) decode ended with, "none" otherwise
    src,            \* Context.src: "open" while every read so far found its
                    \* bytes, "end" once a read has run into the end of input
    tail,           \* history: bytes left of the input when the read of a
                    \* magic number ran into its end, -1 before
    window,         \* Context.window_buf
    flushed_idx,    \* decode_frame: flushed_idx
    last,           \* decode_frame: last (what block() returned)
    frame,          \* decode_frame: frame (window_size(), has_checksum())
    checksum,       \* Decoder.checksum (state of the running hash)
    huff,           \* Context.huff.table
    fse,            \* Context.fse: [ll, of, ml]
    offset_hist,    \* Context.offset_hist (offset_hist[1] is history[0])
    literals_buf,   \* Context.literals_buf[..literals_idx] while a compressed
                    \* block is being decoded (it is not read afterwards)
    literals_idx,   \* Context.literals_idx
    sequences_len,  \* Context.sequences_buf.len()
    sequences_idx,  \* Context.sequences_idx (sequences_buf[..sequences_idx] is decoded)
    seq_i,          \* execute_sequences: sequences already executed
    lit_idx,        \* execute_sequences: lit_idx
    blk,            \* history: the literals type and table modes of the block being decoded
    frame_no,       \* history: frames started on this input
    block_no,       \* history: blocks of this frame decoded so far
    produced,       \* history: bytes appended to the window since the frame began
    written,        \* history: bytes passed to the writer since the frame began
    expected,       \* history: decode_frame's expected_checksum, -1 before
    built,          \* history: table last built in this frame, per slot
    used,           \* history: tables the block being decoded has decoded with, per slot
    recent,         \* history: the last `size` bytes appended to the window
    call,           \* history: the call just made (Context::reset, a window
                    \* operation, a sequence), with what it found
    shifts,         \* history: how often Window::shift has moved the window
                    \* since the last write to the writer (since the frame
                    \* began, before the first write), counted up to MaxShifts
    shifted,        \* history: Window::shift moved the window while the
                    \* block that has just returned was decoded
    input,          \* the argument a library unit is applied to (a byte
                    \* slice, a distribution, a weight vector)
    reader,         \* a ReverseBitReader: [src, buf, bit_count]
    dtable,         \* a DecodingTable (FSE or Huff0) being built or built
    decoders,       \* the rzstd_fse::Decoder states on the tables in use:
                    \* [ll, of, ml] in sequence_section, one state otherwise
    sequences,      \* sequences_buf[..dst_idx]: the triples sequence_section
                    \* has stored so far
    out             \* what the last call on a library unit returned

vars == <<pc, err, src, tail, window, flushed_idx, last, frame, checksum,
          huff, fse, offset_hist, literals_buf, literals_idx, sequences_len,
          sequences_idx, seq_i, lit_idx, blk, frame_no, block_no,
          produced, written, expected, built, used, recent, call,
          shifts, shifted, input, reader, dtable, decoders, sequences, out>>

\* ------------------------------------------------------------------------
\* Checksum.  xxhash_rust::xxh64::Xxh64 is an external collaborator: a
\* running hash with update(bytes) and digest().  It is modelled by a small
\* polynomial hash; digest() as u32 keeps the low bits.
\* ------------------------------------------------------------------------

HashMod == 5

DigestMod == 3

\* Xxh64::new(0)
XxhNew == 0

\* Xxh64::update
RECURSIVE XxhUpdate(_, _)
XxhUpdate(h, data) ==
    IF data = <<>> THEN h
    ELSE XxhUpdate((h * 3 + Head(data) + 1) % HashMod, Tail(data))

\* Xxh64::digest() as u32
XxhDigest32(h) == h % DigestMod

\* ------------------------------------------------------------------------
\* Context (context.rs)
\* ------------------------------------------------------------------------

NoTable == [kind |-> "none", id |-> 0]

NoTables == [huff |-> NoTable, ll |-> NoTable, of |-> NoTable, ml |-> NoTable]

\* FSEContext { ll: None, ml: None, of: None }
FseNone == [ll |-> NoTable, of |-> NoTable, ml |-> NoTable]

\* offset_hist: [1, 4, 8]
InitialOffsetHist == <<1, 4, 8>>

NoCall == [op |-> "none"]

NoBlock == [ls_type |-> "none", ll |-> "none", of |-> "none", ml |-> "none"]

NoFrame == [window_size |-> 0, has_checksum |-> FALSE]

\* the buffer `vec![0u8; ..]` the caller allocates
ZeroBuf == [i \in 0 .. (BufLen - 1) |-> 0]

\* the library units (rzstd_io, rzstd_fse, rzstd_huff0) when none is in use
NoUnit == [op |-> "none"]

\* groups of variables an action leaves alone
libVars == <<input, reader, dtable, decoders, sequences, out>>
tableVars == <<huff, fse, built, used, blk>>
execVars == <<sequences_idx, seq_i, lit_idx>>
unitVars == <<recent, call>>
shiftVars == <<shifts, shifted>>
outVars == <<written, checksum, flushed_idx>>

\* Err(e) returned to the caller of decode
Fail(e) == pc' = "error" /\ err' = e

\* a panic (failed assertion or slice index out of range)
Panic(e) == pc' = "panic" /\ err' = e

\* The input stream is decided as it is read: read_exact of n bytes finds
\* them (TRUE) or runs into the end of the input (FALSE); once a read has
\* run into the end, no later read finds a byte.  A field of the input is
\* decided by the action that first uses it.
Reads(n) == IF n = 0 THEN {TRUE} ELSE IF src = "open" THEN {TRUE, FALSE} ELSE {FALSE}

\* Decoder::new / Context::new, about to run p, with no library unit in use
\* but for the argument one is about to be applied to
Constructed(p) ==
    /\ pc = p
    /\ err = "none"
    /\ src = "open"
    /\ tail = -1
    /\ window = WindowNew(ZeroBuf, BufLen - MAX_BLOCK_SIZE)
    /\ flushed_idx = 0
    /\ last = FALSE
    /\ frame = NoFrame
    /\ checksum = XxhNew
    /\ huff = NoTable
    /\ fse = FseNone
    /\ offset_hist = InitialOffsetHist
    /\ literals_buf = <<>>
    /\ literals_idx = 0
    /\ sequences_len = MAX_BLOCK_SIZE
    /\ sequences_idx = 0
    /\ seq_i = 0
    /\ lit_idx = 0
    /\ blk = NoBlock
    /\ frame_no = 0
    /\ block_no = 0
    /\ produced = <<>>
    /\ written = <<>>
    /\ expected = -1
    /\ built = NoTables
    /\ used = NoTables
    /\ recent = <<>>
    /\ call = NoCall
    /\ shifts = 0
    /\ shifted = FALSE
    /\ reader = NoUnit
    /\ dtable = NoUnit
    /\ decoders = NoUnit
    /\ sequences = <<>>
    /\ out = NoUnit

\* Decoder::new / Context::new, about to run p
Fresh(p) == Constructed(p) /\ input = NoUnit

Init == Fresh("magic")

\* ------------------------------------------------------------------------
\* Decoder::decode / decode_frame (decoder.rs)
\* ------------------------------------------------------------------------

\* the bytes read_u32 can find where a magic number is due: 4 is a whole
\* word, less is the end of the input
MagicInputs == IF src = "open" /\ frame_no < MaxFrames THEN 0 .. 4 ELSE {0}

\* decode_frame, lines 26-33: read_u32 of the magic number.  read_exact
\* fails with UnexpectedEof when fewer than 4 bytes are left, and
\* decode_frame then returns Ok(false), which ends decode with Ok(()).
ReadMagic ==
    /\ pc = "magic"
    /\ UNCHANGED <<libVars, shiftVars>>
    /\ expected' = -1
    /\ produced' = <<>>
    /\ written' = <<>>
    /\ \E avail \in MagicInputs :
         IF avail < 4
         THEN /\ pc' = "done"
              /\ src' = "end"
              /\ tail' = avail
              /\ UNCHANGED <<err, frame_no>>
         ELSE /\ src' = src
              /\ tail' = tail
              /\ frame_no' = frame_no + 1
              /\ \E magic_ok \in BOOLEAN :
                   IF magic_ok
                   THEN pc' = "header" /\ err' = err
                   ELSE Fail("InvalidMagicNum")
    /\ UNCHANGED <<window, flushed_idx, last, frame, checksum, huff, fse, offset_hist,
                   literals_buf, literals_idx, sequences_len, sequences_idx,
                   seq_i, lit_idx, blk, block_no, built, used, recent, call>>

\* frame::Header::window_size: the range check applies to the window
\* descriptor only, a single-segment frame returns its content size
WindowSizeOk(single, size) ==
    single \/ (size >= MIN_WINDOW_SIZE /\ size <= MAX_WINDOW_SIZE)

\* a reset that forgets to clear the entropy tables
ContextResetKeepsTables(w, h, f, hist, size) ==
    [window        |-> WindowReset(w, size),
     literals_idx  |-> 0,
     sequences_len |-> 0,
     huff          |-> h,
     fse           |-> f,
     offset_hist   |-> InitialOffsetHist]

\* Context::reset (context.rs:44-61): the fields it leaves.  The literals
\* and scratch buffers are not touched; sequences_buf.clear() leaves the
\* sequences buffer with length 0.
ContextReset(w, h, f, hist, size) ==
    [window        |-> WindowReset(w, size),
     literals_idx  |-> 0,
     sequences_len |-> 0,
     huff          |-> NoTable,
     fse           |-> FseNone,
     offset_hist   |-> InitialOffsetHist]

\* decode_frame, lines 35-40: frame header, window size, Context::reset
ReadFrameHeader ==
    /\ pc = "header"
    /\ UNCHANGED libVars
    /\ LET stay == UNCHANGED <<window, flushed_idx, frame, huff, fse, offset_hist,
                               literals_buf, literals_idx, sequences_len,
                               block_no, built, call, shiftVars>>
       IN  \E ok \in Reads(1) :
           IF ~ok
           THEN Fail("UnexpectedEof") /\ src' = "end" /\ stay
           ELSE \E reserved \in BOOLEAN :
                IF reserved
                THEN Fail("ReservedBitSet") /\ src' = src /\ stay
                ELSE \E rest \in Reads(1) :
                     IF ~rest
                     THEN Fail("UnexpectedEof") /\ src' = "end" /\ stay
                     ELSE /\ src' = src
                          /\ \E single \in BOOLEAN, size \in WindowSizeInputs :
                             IF ~WindowSizeOk(single, size)
                             THEN Fail("WindowSizeOutOfBounds") /\ stay
                             ELSE IF ~WindowResetAssert(window, size)
                             THEN Panic("WindowResetAssert") /\ stay
                             ELSE \E cks \in BOOLEAN :
                                  LET ctx == ContextReset(window, huff, fse,
                                                          offset_hist, size)
                                  IN  /\ frame' = [window_size |-> size,
                                                   has_checksum |-> cks]
                                      /\ window' = Live(ctx.window)
                                      /\ literals_idx' = ctx.literals_idx
                                      /\ literals_buf' = <<>>
                                      /\ sequences_len' = ctx.sequences_len
                                      /\ huff' = ctx.huff
                                      /\ fse' = ctx.fse
                                      /\ offset_hist' = ctx.offset_hist
                                      /\ flushed_idx' = 0
                                      /\ shifts' = 0
                                      /\ shifted' = FALSE
                                      /\ block_no' = 0
                                      /\ built' = NoTables
                                      /\ pc' = "block"
                                      /\ err' = err
                                      /\ call' = [op |-> "reset",
                                                  index |-> window.index,
                                                  size |-> window.size,
                                                  huff |-> huff, fse |-> fse,
                                                  offset_hist |-> offset_hist,
                                                  literals_idx |-> literals_idx]
    /\ UNCHANGED <<tail, last, checksum, sequences_idx, seq_i, lit_idx,
                   blk, frame_no, produced, written, expected, used, recent>>

\* ------------------------------------------------------------------------
\* Context::block (block.rs)
\* ------------------------------------------------------------------------

\* the last-block bit a block header can carry: a frame has at most
\* MaxBlocks blocks
LastInputs == IF block_no + 1 < MaxBlocks THEN BOOLEAN ELSE {TRUE}

\* block::Header::read fails: end of input, reserved type, size too large
BlockHeaderFails ==
    /\ pc = "block"
    /\ UNCHANGED <<libVars, shiftVars>>
    /\ \E ok \in Reads(3) :
         IF ~ok
         THEN Fail("UnexpectedEof") /\ src' = "end"
         ELSE /\ src' = src
              /\ \E reserved_type \in BOOLEAN :
                   IF reserved_type
                   THEN Fail("ReservedBlock")
                   ELSE Fail("BlockSizeOutOfBounds")
    /\ UNCHANGED <<tail, window, last, frame, offset_hist, literals_buf, literals_idx,
                   sequences_len, frame_no, block_no, produced, expected>>
    /\ call' = NoCall
    /\ UNCHANGED <<tableVars, execVars, recent, outVars>>

\* Type::Raw: window_buf.read_from(src, count), on a block whose bytes
\* are in Bytes and whose last-block bit is in Lasts
BlockRawOn(Bytes, Lasts) ==
    /\ pc = "block"
    /\ UNCHANGED libVars
    /\ src = "open"
    /\ \E count \in 0 .. MAX_BLOCK_SIZE :
         /\ shifts' = ShiftsAfter(shifts, window, count)
         /\ shifted' = Shifted(window, count)
         /\ IF ~InBounds(window, count)
            THEN /\ Panic("SliceIndex")
                 /\ window' = Live(Prepared(window, count))
                 /\ UNCHANGED <<src, last, produced, block_no>>
            ELSE \E ok \in Reads(count) :
                 IF ~ok
                 THEN /\ Fail("UnexpectedEof")
                      /\ window' = Live(Prepared(window, count))
                      /\ src' = "end"
                      /\ UNCHANGED <<last, produced, block_no>>
                 ELSE \E lastb \in Lasts, data \in SeqsOfLen(Bytes, count) :
                      /\ window' = Live(ReadFrom(window, data))
                      /\ produced' = produced \o data
                      /\ block_no' = block_no + 1
                      /\ last' = lastb
                      /\ pc' = "block_done"
                      /\ UNCHANGED <<err, src>>
    /\ UNCHANGED <<tail, frame, offset_hist, literals_buf, literals_idx, sequences_len,
                   frame_no, expected>>
    /\ call' = NoCall
    /\ UNCHANGED <<tableVars, execVars, recent, outVars>>

BlockRaw == BlockRawOn(ByteVals, LastInputs)

\* Type::RLE: read_u8, then window_buf.push_rle(byte, count)
BlockRLEOn(Bytes, Lasts) ==
    /\ pc = "block"
    /\ UNCHANGED libVars
    /\ src = "open"
    /\ \E count \in 0 .. MAX_BLOCK_SIZE, ok \in Reads(1) :
         IF ~ok
         THEN /\ Fail("UnexpectedEof")
              /\ src' = "end"
              /\ UNCHANGED <<window, last, produced, block_no, shiftVars>>
         ELSE /\ shifts' = ShiftsAfter(shifts, window, count)
              /\ shifted' = Shifted(window, count)
              /\ IF ~InBounds(window, count)
                 THEN /\ Panic("SliceIndex")
                      /\ window' = Live(Prepared(window, count))
                      /\ UNCHANGED <<src, last, produced, block_no>>
                 ELSE \E lastb \in Lasts, byte \in Bytes :
                      /\ window' = Live(PushRle(window, byte, count))
                      /\ produced' = produced \o [i \in 1 .. count |-> byte]
                      /\ block_no' = block_no + 1
                      /\ last' = lastb
                      /\ pc' = "block_done"
                      /\ UNCHANGED <<err, src>>
    /\ UNCHANGED <<tail, frame, offset_hist, literals_buf, literals_idx, sequences_len,
                   frame_no, expected>>
    /\ call' = NoCall
    /\ UNCHANGED <<tableVars, execVars, recent, outVars>>

BlockRLE == BlockRLEOn(ByteVals, LastInputs)

\* Type::Compressed: the block header is read; the literals section and the
\* sequences stage follow (LiteralsSection, SequenceSection), which decide
\* the header's content size and last-block bit
BlockCompressed ==
    /\ pc = "block"
    /\ UNCHANGED <<libVars, shifts>>
    /\ src = "open"
    /\ pc' = "literals"
    /\ shifted' = FALSE
    /\ blk' = NoBlock
    /\ used' = NoTables
    /\ UNCHANGED <<err, src, tail, window, last, frame, offset_hist, literals_buf,
                   literals_idx, sequences_len, frame_no, block_no, produced, expected,
                   huff, fse, built>>
    /\ call' = NoCall
    /\ UNCHANGED <<execVars, recent, outVars>>

\* the compressed block fails with e: block() returns Err(e)
BlockFails(e) ==
    /\ Fail(e)
    /\ last' = last
    /\ literals_buf' = <<>>

\* ------------------------------------------------------------------------
\* decode_frame: flushing and the content checksum (decoder.rs:44-72)
\* ------------------------------------------------------------------------

\* lines 46-48: flushed_idx once the block has returned
FlushedAfterBlock(current_idx, flushed) ==
    IF current_idx < flushed THEN 0 ELSE flushed

\* line 51: whether this iteration writes
ShouldFlush(current_idx, flushed, lastb) ==
    SatSub(current_idx, flushed) >= CHUNK \/ lastb

\* lines 44-63: the rest of the loop body after block() has returned
Flush ==
    /\ pc = "block_done"
    /\ UNCHANGED libVars
    /\ LET current_idx == window.index
           flushed == FlushedAfterBlock(current_idx, flushed_idx)
           data == Slice(window.buf, flushed, current_idx)
       IN  IF ShouldFlush(current_idx, flushed, last)
           THEN /\ written' = written \o data
                /\ checksum' = XxhUpdate(checksum, data)
                /\ flushed_idx' = current_idx
                /\ shifts' = 0
           ELSE /\ flushed_idx' = flushed
                /\ UNCHANGED <<written, checksum, shifts>>
    /\ shifted' = FALSE
    /\ pc' = IF last THEN "checksum" ELSE "block"
    /\ last' = FALSE
    /\ UNCHANGED <<err, src, tail, window, frame, offset_hist, literals_buf,
                   literals_idx, sequences_len, frame_no, block_no,
                   produced, expected>>
    /\ UNCHANGED <<tableVars, execVars, unitVars>>

\* the 32-bit values a frame can end with
ChecksumInputs == 0 .. (DigestMod - 1)

\* lines 65-74: the content checksum, then Ok(true) and the next frame;
\* the locals flushed_idx and frame end with decode_frame
Checksum ==
    /\ pc = "checksum"
    /\ UNCHANGED <<libVars, shiftVars>>
    /\ IF ~frame.has_checksum
       THEN pc' = "magic" /\ UNCHANGED <<err, src, expected>>
       ELSE \E ok \in Reads(4) :
            IF ~ok
            THEN Fail("UnexpectedEof") /\ src' = "end" /\ expected' = expected
            ELSE /\ src' = src
                 /\ \E expected_checksum \in ChecksumInputs :
                      /\ expected' = expected_checksum
                      /\ IF XxhDigest32(checksum) # expected_checksum
                         THEN Fail("ChecksumMismatch")
                         ELSE pc' = "magic" /\ err' = err
    /\ flushed_idx' = 0
    /\ frame' = NoFrame
    /\ UNCHANGED <<tail, window, last, offset_hist, literals_buf, literals_idx,
                   sequences_len, frame_no, block_no, produced, written,
                   checksum>>
    /\ UNCHANGED <<tableVars, execVars, unitVars>>

\* decode(&mut self) may be called again after it has returned an error:
\* the context and the running hash are as the failed call left them, the
\* locals of the failed call are gone
DecodeAgain ==
    /\ pc = "error"
    /\ UNCHANGED <<libVars, shiftVars>>
    /\ pc' = "magic"
    /\ err' = "none"
    /\ flushed_idx' = 0
    /\ frame' = NoFrame
    /\ block_no' = 0
    /\ produced' = <<>>
    /\ written' = <<>>
    /\ expected' = -1
    /\ blk' = NoBlock
    /\ used' = NoTables
    /\ UNCHANGED <<src, tail, window, last, checksum, huff, fse, built, offset_hist,
                   literals_buf, literals_idx, sequences_len, frame_no>>
    /\ UNCHANGED <<execVars, unitVars>>


\* ------------------------------------------------------------------------
\* Context::literals_section (literals_section.rs:11-63)
\* ------------------------------------------------------------------------

LsTypes == {"Raw", "RLE", "Compressed", "Treeless"}

\* regenerated and compressed sizes a header can hold: up to one past the
\* maximum
SizeInputs == 0 .. (MAX_BLOCK_SIZE + 1)

\* the number of different Huff0 tables a tree description can encode
MaxHuffId == 2

\* the Huff0 tables a tree description can encode
HuffTableInputs == {[kind |-> "huff", id |-> i] : i \in 1 .. MaxHuffId}

\* lines 50-56: the table slot after a literals section of type ls_type
\* whose tree description (if any) parsed to `table`
HuffSlotAfter(ls_type, curr, table) ==
    IF ls_type = "Compressed" THEN table ELSE curr

\* Type::Compressed | Type::Treeless, lines 41-59, once the payload is in
\* scratch.  What DecodingTable::read and huff_streams make of the payload
\* is an input: the tree description is rejected or parses to a table, the
\* streams are rejected or decode to `data`.
HuffLiterals(ls_type, regen, csize, Bytes) ==
    \E table \in HuffTableInputs, table_ok \in BOOLEAN :
      LET slot == HuffSlotAfter(ls_type, huff, table)
      IN  IF ls_type = "Compressed" /\ (~table_ok \/ csize = 0)
          THEN BlockFails("Huff0") /\ UNCHANGED <<huff, built, used>>
          ELSE /\ huff' = slot
               /\ built' = IF ls_type = "Compressed"
                           THEN [built EXCEPT !.huff = table]
                           ELSE built
               /\ IF slot = NoTable
                  THEN BlockFails("MissingHuffTable") /\ used' = used
                  ELSE /\ used' = [used EXCEPT !.huff = slot]
                       /\ \E streams_ok \in BOOLEAN :
                            IF ~streams_ok
                            THEN BlockFails("HuffStream")
                            ELSE \E data \in SeqsOfLen(Bytes, regen) :
                                 /\ literals_buf' = data
                                 /\ pc' = "sequences"
                                 /\ err' = err
                                 /\ UNCHANGED last

\* the literals section of a compressed block whose header announces a
\* size in Sizes and whose literals are bytes in Bytes
LiteralsSectionOn(Sizes, Bytes) ==
    /\ pc = "literals"
    /\ UNCHANGED <<libVars, shiftVars>>
    /\ \E ls_type \in LsTypes, hdr \in Reads(1) :
         LET keep == UNCHANGED <<huff, built, used>>
         IN  /\ blk' = [NoBlock EXCEPT !.ls_type = ls_type]
             /\ IF ~hdr
                THEN /\ BlockFails("UnexpectedEof")
                     /\ src' = "end"
                     /\ literals_idx' = literals_idx /\ keep
                ELSE \E regen \in Sizes :
                     IF regen > MAX_BLOCK_SIZE
                     THEN /\ BlockFails("LiteralsSizeTooLarge")
                          /\ UNCHANGED <<src, literals_idx>> /\ keep
                     ELSE /\ literals_idx' = regen
                          /\ IF ls_type = "Raw"
                             THEN \E ok \in Reads(regen) :
                                  IF ~ok
                                  THEN /\ BlockFails("UnexpectedEof")
                                       /\ src' = "end" /\ keep
                                  ELSE \E data \in SeqsOfLen(Bytes, regen) :
                                       /\ literals_buf' = data
                                       /\ pc' = "sequences"
                                       /\ UNCHANGED <<err, src, last>>
                                       /\ keep
                             ELSE IF ls_type = "RLE"
                             THEN \E ok \in Reads(1) :
                                  IF ~ok
                                  THEN /\ BlockFails("UnexpectedEof")
                                       /\ src' = "end" /\ keep
                                  ELSE \E byte \in Bytes :
                                       /\ literals_buf' = [i \in 1 .. regen |-> byte]
                                       /\ pc' = "sequences"
                                       /\ UNCHANGED <<err, src, last>>
                                       /\ keep
                             ELSE \E csize \in Sizes :
                                  IF csize > MAX_BLOCK_SIZE
                                  THEN /\ BlockFails("CompressedSizeTooLarge")
                                       /\ src' = src /\ keep
                                  ELSE \E ok \in Reads(csize) :
                                       IF ~ok
                                       THEN /\ BlockFails("UnexpectedEof")
                                            /\ src' = "end" /\ keep
                                       ELSE /\ src' = src
                                            /\ HuffLiterals(ls_type, regen, csize, Bytes)
    /\ UNCHANGED <<tail, window, frame, offset_hist, sequences_len,
                   frame_no, block_no, produced, expected, fse>>
    /\ UNCHANGED <<execVars, unitVars, outVars>>

\* the literals sections of the frames decode is given: the literal bytes
\* are not read again once the block has returned
FrameLitSizes == {0, 1, MAX_BLOCK_SIZE + 1}
FrameLitBytes == {0}

LiteralsSection == LiteralsSectionOn(FrameLitSizes, FrameLitBytes)


\* ------------------------------------------------------------------------
\* Context::sequence_section (sequences_section.rs:23-134)
\* ------------------------------------------------------------------------

\* the largest number of sequences a section announces
MaxSeqs == 2

\* the number of different tables an RLE byte or a distribution can encode
MaxTableId == 1

\* what the section holds for one table: the mode, and for RLE and
\* FSE_Compressed the description (the byte an RLE table repeats, the
\* distribution an FSE table is built from: sym) or a distribution that
\* DecodingTable::read rejects (bad)
TableInputs ==
    {[mode |-> m, sym |-> 0, bad |-> FALSE] : m \in {"Predefined", "Repeat"}}
    \cup {[mode |-> m, sym |-> i, bad |-> FALSE] :
             m \in {"RLE", "FSECompressed"}, i \in 1 .. MaxTableId}
    \cup {[mode |-> "FSECompressed", sym |-> 0, bad |-> TRUE]}

\* an update_table whose RLE mode reads its byte but keeps the old table
UpdateTableRleKeepsSlot(mode, curr, avail, in) ==
    IF mode = "Repeat"
    THEN [res   |-> IF curr = NoTable THEN "MissingTableForRepeat" ELSE "ok",
          table |-> curr, read |-> 0]
    ELSE IF mode = "Predefined"
    THEN [res |-> "ok", table |-> [kind |-> "predefined", id |-> 0], read |-> 0]
    ELSE IF mode = "RLE"
    THEN IF avail = 0
         THEN [res |-> "EmptyRLESource", table |-> curr, read |-> 0]
         ELSE [res |-> "ok", table |-> curr, read |-> 1]
    ELSE IF avail = 0
         THEN [res |-> "EmptyStream", table |-> curr, read |-> 0]
         ELSE IF in.bad
         THEN [res |-> "FSE", table |-> curr, read |-> 0]
         ELSE [res |-> "ok", table |-> [kind |-> "fse", id |-> in.sym], read |-> 1]

\* update_table (sequences_section.rs:246-280) on a slot `curr`, with
\* `avail` bytes left in the section: the error or "ok", the slot it
\* leaves, and the bytes it consumed
UpdateTable(mode, curr, avail, in) ==
    IF mode = "Repeat"
    THEN [res   |-> IF curr = NoTable THEN "MissingTableForRepeat" ELSE "ok",
          table |-> curr, read |-> 0]
    ELSE IF mode = "Predefined"
    THEN [res |-> "ok", table |-> [kind |-> "predefined", id |-> 0], read |-> 0]
    ELSE IF mode = "RLE"
    THEN IF avail = 0
         THEN [res |-> "EmptyRLESource", table |-> curr, read |-> 0]
         ELSE [res |-> "ok", table |-> [kind |-> "rle", id |-> in.sym], read |-> 1]
    ELSE IF avail = 0
         THEN [res |-> "EmptyStream", table |-> curr, read |-> 0]
         ELSE IF in.bad
         THEN [res |-> "FSE", table |-> curr, read |-> 0]
         ELSE [res |-> "ok", table |-> [kind |-> "fse", id |-> in.sym], read |-> 1]

\* the table the history expects in a slot after a block selected `mode`
\* for it and the description (if any) was accepted
BuiltAfter(mode, prev, res, table) ==
    IF mode # "Repeat" /\ res = "ok" THEN table ELSE prev

\* sequence_section, lines 78-132, once the three tables are in place and
\* `stream` bytes are left for the bit stream.  What the bit stream decodes
\* to is an input: fault = "stream" (ReverseBitReader::new fails), "bits"
\* (a decoder runs out of bits), "extra" (bits are left over) or "none".
SequenceStream(n_seqs, stream, tables) ==
    \E fault \in {"none", "stream", "bits", "extra"} :
      IF stream = 0 \/ fault = "stream"
      THEN BlockFails("ReverseBitReader") /\ UNCHANGED <<used, execVars>>
      ELSE /\ used' = [used EXCEPT !.ll = tables.ll, !.of = tables.of,
                                   !.ml = tables.ml]
           /\ IF fault = "bits"
              THEN BlockFails("NotEnoughBits") /\ UNCHANGED execVars
              ELSE /\ sequences_idx' = n_seqs
                   /\ IF n_seqs > sequences_len
                      THEN /\ Panic("SliceIndex")
                           /\ UNCHANGED <<seq_i, lit_idx, last, literals_buf>>
                      ELSE IF fault = "extra"
                      THEN /\ BlockFails("ExtraBitsInStream")
                           /\ UNCHANGED <<seq_i, lit_idx>>
                      ELSE /\ pc' = "exec"
                           /\ err' = err
                           /\ seq_i' = 0
                           /\ lit_idx' = 0
                           /\ UNCHANGED <<last, literals_buf>>

\* sequence_section, lines 39-76: the three update_table calls, in the
\* order LL, OF, ML, on descriptions in Tables; the first that fails ends
\* the section
SequenceTables(n_seqs, seq_size, Tables) ==
    \E ll_in \in Tables :
      LET ll == UpdateTable(ll_in.mode, fse.ll, seq_size - 2, ll_in)
          b1 == [built EXCEPT !.ll = BuiltAfter(ll_in.mode, @, ll.res, ll.table)]
      IN  IF ll.res # "ok"
          THEN /\ BlockFails(ll.res)
               /\ blk' = [blk EXCEPT !.ll = ll_in.mode]
               /\ fse' = [fse EXCEPT !.ll = ll.table]
               /\ built' = b1
               /\ UNCHANGED <<used, execVars>>
          ELSE \E of_in \in Tables :
            LET of == UpdateTable(of_in.mode, fse.of, seq_size - 2 - ll.read, of_in)
                b2 == [b1 EXCEPT !.of = BuiltAfter(of_in.mode, @, of.res, of.table)]
            IN  IF of.res # "ok"
                THEN /\ BlockFails(of.res)
                     /\ blk' = [blk EXCEPT !.ll = ll_in.mode, !.of = of_in.mode]
                     /\ fse' = [fse EXCEPT !.ll = ll.table, !.of = of.table]
                     /\ built' = b2
                     /\ UNCHANGED <<used, execVars>>
                ELSE \E ml_in \in Tables :
                  LET ml == UpdateTable(ml_in.mode, fse.ml,
                                        seq_size - 2 - ll.read - of.read, ml_in)
                      b3 == [b2 EXCEPT
                               !.ml = BuiltAfter(ml_in.mode, @, ml.res, ml.table)]
                      tables == [ll |-> ll.table, of |-> of.table, ml |-> ml.table]
                  IN  /\ blk' = [blk EXCEPT !.ll = ll_in.mode, !.of = of_in.mode,
                                            !.ml = ml_in.mode]
                      /\ fse' = tables
                      /\ built' = b3
                      /\ IF ml.res # "ok"
                         THEN BlockFails(ml.res) /\ UNCHANGED <<used, execVars>>
                         ELSE SequenceStream(n_seqs,
                                seq_size - 2 - ll.read - of.read - ml.read, tables)

\* The sequences stage of a compressed block.  block.rs:20 hands the
\* block's content size to the stage; sequence_section reads that many
\* bytes into the scratch buffer and parses them.  With no sequences the
\* stage returns at once and block() returns the last-block bit.
SequenceSectionOn(Tables) ==
    /\ pc = "sequences"
    /\ UNCHANGED <<libVars, shiftVars>>
    /\ \E seq_size \in 0 .. MAX_BLOCK_SIZE : \E ok \in Reads(seq_size) :
         LET keep == UNCHANGED <<fse, built, used, blk, execVars>>
         IN  IF ~ok
             THEN /\ BlockFails("UnexpectedEof")
                  /\ src' = "end"
                  /\ block_no' = block_no /\ keep
             ELSE /\ src' = src
                  /\ IF seq_size < 1
                     THEN BlockFails("UnexpectedEof") /\ block_no' = block_no /\ keep
                     ELSE \E n_seqs \in 0 .. MaxSeqs :
                          IF n_seqs = 0
                          THEN /\ pc' = "block_done"
                               /\ err' = err
                               /\ block_no' = block_no + 1
                               /\ \E lastb \in LastInputs : last' = lastb
                               /\ literals_buf' = <<>>
                               /\ blk' = NoBlock
                               /\ used' = NoTables
                               /\ UNCHANGED <<fse, built, execVars>>
                          ELSE IF seq_size < 2
                          THEN /\ BlockFails("UnexpectedEof")
                               /\ block_no' = block_no /\ keep
                          ELSE /\ block_no' = block_no
                               /\ \E reserved \in BOOLEAN :
                                    IF reserved
                                    THEN BlockFails("ReservedBitSet") /\ keep
                                    ELSE SequenceTables(n_seqs, seq_size, Tables)
    /\ UNCHANGED <<tail, window, frame, offset_hist, literals_idx,
                   sequences_len, frame_no, produced, expected, huff>>
    /\ UNCHANGED <<unitVars, outVars>>

\* the table descriptions of the frames decode is given
FrameTables == {in \in TableInputs : in.mode # "FSECompressed"}

SequenceSection == SequenceSectionOn(FrameTables)


\* ------------------------------------------------------------------------
\* Context::execute_sequences and update_offset_hist (sequence_execution.rs)
\* ------------------------------------------------------------------------

\* the smallest match length the decoder produces: ML_TABLE[0]
\* (sequences_section.rs:332)
MIN_MATCH == 3

\* the largest literal length and offset value of a decoded sequence
MaxLitLen == 2
MaxOffsetValue == 6

\* the sequences decode_of / decode_ml / decode_ll can put in sequences_buf:
\* offset = (1 << code) + extra >= 1, match_len >= ML_TABLE[0].0
SeqInputs ==
    [lit_len : 0 .. MaxLitLen, offset : 1 .. MaxOffsetValue,
     match_len : MIN_MATCH .. MAX_BLOCK_SIZE]

\* update_offset_hist, lines 72-89: the resolved offset
\* (history[i] of the source is history[i + 1] here)
NextOffset(history, offset, lit_len) ==
    IF lit_len > 0
    THEN (IF offset \in 1 .. 3 THEN history[offset] ELSE offset - 3)
    ELSE (IF offset \in 1 .. 2 THEN history[offset + 1]
          ELSE IF offset = 3 THEN history[1] - 1
          ELSE offset - 3)

\* the usize subtractions of lines 77, 83 and 86 underflow
OffsetUnderflows(history, offset, lit_len) ==
    \/ offset = 0
    \/ lit_len = 0 /\ offset = 3 /\ history[1] = 0

\* an update that rotates the history for (code 1, lit_len > 0) as well
UpdateHistoryAlwaysRotates(history, offset, lit_len) ==
    LET next_offset == NextOffset(history, offset, lit_len)
    IN  IF lit_len > 0
        THEN (IF offset = 1 THEN <<next_offset, history[1], history[2]>>
              ELSE IF offset = 2 THEN <<next_offset, history[1], history[3]>>
              ELSE <<next_offset, history[1], history[2]>>)
        ELSE (IF offset = 1 THEN <<next_offset, history[1], history[3]>>
              ELSE <<next_offset, history[1], history[2]>>)

\* update_offset_hist, lines 91-124: the history it leaves
UpdateHistory(history, offset, lit_len) ==
    LET next_offset == NextOffset(history, offset, lit_len)
    IN  IF lit_len > 0
        THEN (IF offset = 1 THEN history
              ELSE IF offset = 2 THEN <<next_offset, history[1], history[3]>>
              ELSE <<next_offset, history[1], history[2]>>)
        ELSE (IF offset = 1 THEN <<next_offset, history[1], history[3]>>
              ELSE <<next_offset, history[1], history[2]>>)

\* update_offset_hist always returns Ok(next_offset) (line 126)
UpdateOffsetHistResult(history, offset, lit_len) == "ok"

\* execute_sequences, lines 15-52: one iteration of the loop, on the next
\* entry of sequences_buf, which holds one of the sequences in Seqs
ExecStepOn(Seqs) ==
    /\ pc = "exec"
    /\ UNCHANGED libVars
    /\ seq_i < sequences_idx
    /\ \E seq \in Seqs :
         LET lit_len == seq.lit_len
             match_len == seq.match_len
             next_lit_idx == lit_idx + lit_len
             literal == SubSeq(literals_buf, lit_idx + 1, next_lit_idx)
             w1 == IF lit_len > 0 THEN PushBuf(window, literal) ELSE window
             res == UpdateOffsetHistResult(offset_hist, seq.offset, lit_len)
             offset == NextOffset(offset_hist, seq.offset, lit_len)
             hist == UpdateHistory(offset_hist, seq.offset, lit_len)
             w2 == IF match_len > 0 THEN CopyWithin(w1, offset, match_len) ELSE w1
             s2 == Prepared(w1, match_len)
             n1 == IF lit_len > 0 THEN ShiftsAfter(shifts, window, lit_len) ELSE shifts
             n2 == IF match_len > 0 THEN ShiftsAfter(n1, w1, match_len) ELSE n1
             m1 == shifted \/ (lit_len > 0 /\ Shifted(window, lit_len))
             m2 == m1 \/ (match_len > 0 /\ Shifted(w1, match_len))
             this == [op |-> "sequence", lit_len |-> lit_len, code |-> seq.offset,
                      match_len |-> match_len, hist |-> offset_hist,
                      offset |-> offset, avail |-> Min(w1.index, w1.size),
                      before |-> LastN(AsSlice(w1), Min(w1.index, w1.size)),
                      shifted |-> NeedsShift(w1, match_len), res |-> "ok"]
         IN  IF lit_len > 0 /\ next_lit_idx > Len(literals_buf)
             THEN /\ BlockFails("LiteralsBufferOverread")
                  /\ UNCHANGED <<window, offset_hist, lit_idx, seq_i, produced, call,
                                 shiftVars>>
             ELSE IF lit_len > 0 /\ ~InBounds(window, lit_len)
             THEN /\ Panic("SliceIndex")
                  /\ window' = Live(Prepared(window, lit_len))
                  /\ shifts' = n1 /\ shifted' = m1
                  /\ UNCHANGED <<offset_hist, lit_idx, seq_i, produced, call,
                                 last, literals_buf>>
             ELSE IF OffsetUnderflows(offset_hist, seq.offset, lit_len)
             THEN /\ Panic("SubtractOverflow")
                  /\ window' = Live(w1)
                  /\ shifts' = n1 /\ shifted' = m1
                  /\ lit_idx' = next_lit_idx
                  /\ produced' = produced \o literal
                  /\ UNCHANGED <<offset_hist, seq_i, call, last, literals_buf>>
             ELSE /\ lit_idx' = next_lit_idx
                  /\ offset_hist' = hist
                  /\ IF res # "ok"
                     THEN /\ BlockFails(res)
                          /\ window' = Live(w1)
                          /\ shifts' = n1 /\ shifted' = m1
                          /\ produced' = produced \o literal
                          /\ call' = [this EXCEPT !.res = res]
                          /\ seq_i' = seq_i
                     ELSE IF match_len > 0 /\ CopyRejects(w1, offset, match_len)
                     THEN /\ BlockFails("CopiedSizeOutOfBounds")
                          /\ window' = Live(w2)
                          /\ shifts' = n2 /\ shifted' = m2
                          /\ produced' = produced \o literal
                          /\ call' = [this EXCEPT !.res = "CopiedSizeOutOfBounds"]
                          /\ seq_i' = seq_i
                     ELSE IF match_len > 0 /\ s2.index + match_len > BufLenOf(s2)
                     THEN /\ Panic("SliceIndex")
                          /\ window' = Live(s2)
                          /\ shifts' = n2 /\ shifted' = m2
                          /\ produced' = produced \o literal
                          /\ call' = [this EXCEPT !.res = "panic"]
                          /\ UNCHANGED <<seq_i, last, literals_buf>>
                     ELSE /\ window' = Live(w2)
                          /\ shifts' = n2 /\ shifted' = m2
                          /\ produced' = produced \o literal
                                           \o Slice(w2.buf, w2.index - match_len, w2.index)
                          /\ call' = this
                          /\ seq_i' = seq_i + 1
                          /\ UNCHANGED <<pc, err, last, literals_buf>>
    /\ UNCHANGED <<src, tail, frame, literals_idx, sequences_len,
                   sequences_idx, frame_no, block_no, expected, recent>>
    /\ UNCHANGED <<tableVars, outVars>>

ExecStep == ExecStepOn(SeqInputs)

\* an end that drops the literals no sequence has used
TrailingLiteralsDropped(literals, at) == <<>>

\* lines 54-56: &literals[lit_idx..]
TrailingLiterals(literals, at) == SubSeq(literals, at + 1, Len(literals))

\* execute_sequences, lines 54-63: the trailing literals, literals_idx = 0;
\* block() returns
ExecEnd ==
    /\ pc = "exec"
    /\ UNCHANGED libVars
    /\ seq_i = sequences_idx
    /\ LET rest == TrailingLiterals(literals_buf, lit_idx)
       IN  /\ shifts' = ShiftsAfter(shifts, window, Len(rest))
           /\ shifted' = (shifted \/ Shifted(window, Len(rest)))
           /\ IF lit_idx < Len(literals_buf) /\ ~InBounds(window, Len(rest))
              THEN /\ Panic("SliceIndex")
                   /\ window' = Live(Prepared(window, Len(rest)))
                   /\ UNCHANGED <<literals_buf, literals_idx, produced, block_no,
                                  last, seq_i, lit_idx, blk, used>>
              ELSE /\ window' = IF lit_idx < Len(literals_buf)
                                THEN Live(PushBuf(window, rest)) ELSE window
                   /\ produced' = produced \o rest
                   /\ literals_idx' = 0
                   /\ literals_buf' = <<>>
                   /\ \E lastb \in LastInputs : last' = lastb
                   /\ seq_i' = 0
                   /\ lit_idx' = 0
                   /\ blk' = NoBlock
                   /\ used' = NoTables
                   /\ block_no' = block_no + 1
                   /\ pc' = "block_done"
                   /\ err' = err
    /\ UNCHANGED <<src, tail, frame, offset_hist, sequences_len,
                   sequences_idx, frame_no, expected, call, recent>>
    /\ UNCHANGED <<huff, fse, built, outVars>>

\* ------------------------------------------------------------------------
\* The decoder: Decoder::new, then decode() on an input stream
\* ------------------------------------------------------------------------

\* Context::reset empties sequences_buf, so the slice sequences_buf[..n_seqs]
\* of a section with n_seqs >= 1 panics (SequenceStream) and decode never
\* gets to execute_sequences: ExecStep and ExecEnd are left out.
Next ==
    \/ ReadMagic
    \/ ReadFrameHeader
    \/ BlockHeaderFails
    \/ BlockRaw
    \/ BlockRLE
    \/ BlockCompressed
    \/ LiteralsSection
    \/ SequenceSection
    \/ Flush
    \/ Checksum
    \/ DecodeAgain

Spec == Init /\ [][Next]_vars

\* ------------------------------------------------------------------------
\* Properties of the decoder (Spec)
\* ------------------------------------------------------------------------

\* C1: what the writer has received in a frame is a prefix of the bytes
\* appended to the window in that frame, and all of them once the last
\* block has been flushed, whatever shifts happened in between.
C1_WriterGetsWindowAppends ==
    /\ pc \in {"block", "checksum"} => IsPrefix(written, produced)
    /\ pc = "checksum" => written = produced

\* C2: the checksum read at the end of a frame is compared with the hash of
\* the output of that frame alone: decode fails with ChecksumMismatch
\* exactly when the two differ.
C2_ChecksumOfFrameAlone ==
    expected >= 0 =>
        ((pc = "error" /\ err = "ChecksumMismatch")
            <=> expected # XxhDigest32(XxhUpdate(XxhNew, written)))

\* C3: decode returns Ok only when the input ends at a frame boundary: no
\* byte of a cut-off magic number is left behind.
C3_OkOnlyAtFrameBoundary == pc = "done" => tail = 0

\* C4: after a frame header has been parsed and before the first block of
\* the frame is decoded, the window index is 0, the window size is the
\* frame's, no Huff0 or FSE table is present, the offset history is
\* [1, 4, 8] and literals_idx is 0.
C4_ContextResetBeforeFirstBlock ==
    (pc = "block" /\ block_no = 0) =>
        /\ window.index = 0
        /\ window.size = frame.window_size
        /\ huff = NoTable
        /\ fse = FseNone
        /\ offset_hist = InitialOffsetHist
        /\ literals_idx = 0

\* a frame starts on a context that an earlier frame left with output in
\* the window, another window size, tables and literals
C4_Witness ==
    /\ pc = "block" /\ block_no = 0
    /\ call.op = "reset"
    /\ call.index > 0
    /\ call.size # window.size
    /\ call.huff # NoTable
    /\ call.fse.ll # NoTable
    /\ call.literals_idx > 0

\* ------------------------------------------------------------------------
\* The context on its own: Context::new, then block() after block(), and
\* Context::reset between frames.  Before the first reset sequences_buf has
\* its MAX_BLOCK_SIZE entries, so sequences are executed.
\* ------------------------------------------------------------------------

\* the caller goes on to the next block of the frame
BlockReturns ==
    /\ pc = "block_done"
    /\ UNCHANGED <<libVars, shiftVars>>
    /\ ~last
    /\ pc' = "block"
    /\ UNCHANGED <<err, src, tail, window, flushed_idx, last, frame, checksum, huff,
                   fse, offset_hist, literals_buf, literals_idx, sequences_len,
                   sequences_idx, seq_i, lit_idx, blk, frame_no, block_no, produced,
                   written, expected, built, used, recent, call>>

\* the frame is over and the caller resets the context for the next one
CtxReset ==
    /\ pc = "block_done"
    /\ UNCHANGED <<libVars, shiftVars>>
    /\ last
    /\ frame_no < MaxFrames
    /\ \E size \in MIN_WINDOW_SIZE .. MAX_WINDOW_SIZE :
         IF ~WindowResetAssert(window, size)
         THEN /\ Panic("WindowResetAssert")
              /\ UNCHANGED <<window, huff, fse, offset_hist, literals_idx,
                             sequences_len, block_no, built, last, call, produced>>
         ELSE LET ctx == ContextReset(window, huff, fse, offset_hist, size)
              IN  /\ window' = Live(ctx.window)
                  /\ literals_idx' = ctx.literals_idx
                  /\ sequences_len' = ctx.sequences_len
                  /\ huff' = ctx.huff
                  /\ fse' = ctx.fse
                  /\ offset_hist' = ctx.offset_hist
                  /\ block_no' = 0
                  /\ built' = NoTables
                  /\ last' = FALSE
                  /\ produced' = <<>>
                  /\ call' = [op |-> "reset",
                              index |-> window.index,
                              size |-> window.size,
                              huff |-> huff, fse |-> fse,
                              offset_hist |-> offset_hist,
                              literals_idx |-> literals_idx]
                  /\ pc' = "block"
                  /\ err' = err
    /\ frame_no' = frame_no + 1
    /\ UNCHANGED <<src, tail, flushed_idx, frame, checksum, literals_buf,
                   sequences_idx, seq_i, lit_idx, blk, written, expected, used, recent>>

\* the blocks the context is given: short literals and two sequences that
\* copy what the literal before them put into the window
TablesLitSizes == {0, 1}
TablesLitBytes == {0}
TablesSeqs ==
    {[lit_len |-> 1, offset |-> 4, match_len |-> MIN_MATCH],
     [lit_len |-> 0, offset |-> 1, match_len |-> MIN_MATCH]}

TablesLiterals == LiteralsSectionOn(TablesLitSizes, TablesLitBytes)
TablesSequences == SequenceSectionOn(TableInputs)
TablesExecStep == ExecStepOn(TablesSeqs)

NextTables ==
    \/ BlockHeaderFails
    \/ BlockCompressed
    \/ TablesLiterals
    \/ TablesSequences
    \/ TablesExecStep
    \/ ExecEnd
    \/ BlockReturns
    \/ CtxReset

InitTables == Fresh("block")

SpecTables == InitTables /\ [][NextTables]_vars

\* the table slot s of the context, and its mode in the block being decoded
Slot(s) == IF s = "huff" THEN huff ELSE fse[s]

\* C5: a table slot holds the table most recently built in the frame: the
\* Huff0 slot changes only in a Compressed literals section, an FSE slot
\* only under Predefined, RLE or FSE_Compressed.  A Treeless section and a
\* Repeat mode decode with that table, and fail with MissingHuffTable /
\* MissingTableForRepeat when the frame has built none.
C5_TablesPersistAcrossBlocks ==
    /\ \A s \in {"huff", "ll", "of", "ml"} :
         /\ Slot(s) = built[s]
         /\ used[s] # NoTable => used[s] = built[s]
    /\ (pc \in {"sequences", "exec"} /\ blk.ls_type \in {"Compressed", "Treeless"})
         => used.huff # NoTable
    /\ pc = "exec" => \A s \in {"ll", "of", "ml"} : used[s] # NoTable
    /\ (pc = "error" /\ err = "MissingHuffTable")
         <=> (pc = "error" /\ blk.ls_type = "Treeless" /\ blk.ll = "none"
              /\ built.huff = NoTable /\ err \notin {"UnexpectedEof",
                    "LiteralsSizeTooLarge", "CompressedSizeTooLarge"})
    /\ (pc = "error" /\ err = "MissingTableForRepeat")
         => \E s \in {"ll", "of", "ml"} : blk[s] = "Repeat" /\ built[s] = NoTable
    /\ (pc = "error" /\ \E s \in {"ll", "of", "ml"} :
                            blk[s] = "Repeat" /\ built[s] = NoTable)
         => err = "MissingTableForRepeat"

\* a second block of a frame decodes its literals Treeless and its
\* sequences with three repeated tables
C5_Witness ==
    /\ pc = "exec"
    /\ block_no = 1
    /\ blk.ls_type = "Treeless"
    /\ used.huff # NoTable
    /\ \A s \in {"ll", "of", "ml"} : blk[s] = "Repeat" /\ used[s] = built[s]

\* ------------------------------------------------------------------------
\* The sequence executor: Context::new, then one compressed block whose
\* sequences are decoded with the predefined tables and executed
\* ------------------------------------------------------------------------

ExecTables == {in \in TableInputs : in.mode = "Predefined"}

ExecLiterals == LiteralsSectionOn(SizeInputs, ByteVals)
ExecSequences == SequenceSectionOn(ExecTables)

NextExec ==
    \/ BlockCompressed
    \/ ExecLiterals
    \/ ExecSequences
    \/ ExecStep
    \/ ExecEnd

InitExec == Fresh("block")

SpecExec == InitExec /\ [][NextExec]_vars

\* the logical history of the window: its last min(index, size) bytes
History(w) == LastN(AsSlice(w), Min(w.index, w.size))

\* C8: the back-copy of a sequence fails with CopiedSizeOutOfBounds exactly
\* when its offset is 0 or larger than min(index, size) of the window it is
\* applied to, and then the history of the window is what it was; a
\* back-copy that succeeded used an offset in 1 .. min(index, size).
C8_CopyRejectsBadOffsets ==
    call.op = "sequence" =>
        /\ call.res = "CopiedSizeOutOfBounds"
             <=> (call.offset = 0 \/ call.offset > call.avail)
        /\ call.res = "CopiedSizeOutOfBounds"
             => /\ pc = "error" /\ err = "CopiedSizeOutOfBounds"
                /\ History(window) = call.before
        /\ call.res = "ok" => call.offset \in 1 .. call.avail

\* a back-copy is rejected after the window has been shifted for it
C8_Witness ==
    /\ call.op = "sequence"
    /\ call.res = "CopiedSizeOutOfBounds"
    /\ call.shifted
    /\ call.offset > call.avail
    /\ call.avail > 0

\* the offset a sequence resolves to, by the rules of the format
RuleOffset(h, code, lit_len) ==
    IF code > 3 THEN code - 3
    ELSE IF lit_len > 0 THEN h[code]
    ELSE IF code = 3 THEN h[1] - 1
    ELSE h[code + 1]

\* the entry of the history a sequence takes its offset from (3: none, the
\* oldest entry is dropped)
RuleUsed(code, lit_len) ==
    IF code > 3 THEN 3
    ELSE IF lit_len > 0 THEN code
    ELSE IF code = 3 THEN 3
    ELSE code + 1

\* the history after a sequence: the resolved offset in front, the entries
\* before the one it came from moved one place to the right
RuleHistory(h, code, lit_len) ==
    IF code = 1 /\ lit_len > 0 THEN h
    ELSE LET used_entry == RuleUsed(code, lit_len)
             kept == [i \in 1 .. 2 |-> IF i < used_entry THEN h[i] ELSE h[i + 1]]
         IN  <<RuleOffset(h, code, lit_len)>> \o kept

\* C9: every executed sequence resolved its offset and updated the history
\* by the rules of the format; from [1, 4, 8], (lit_len 2, code 5) gives
\* offset 2 and [2, 1, 4], and then (lit_len 0, code 1) gives offset 1 and
\* [1, 2, 4].
C9_OffsetHistoryRules ==
    call.op = "sequence" =>
        /\ call.offset = RuleOffset(call.hist, call.code, call.lit_len)
        /\ offset_hist = RuleHistory(call.hist, call.code, call.lit_len)
        /\ (call.hist = <<1, 4, 8>> /\ call.lit_len = 2 /\ call.code = 5)
             => (call.offset = 2 /\ offset_hist = <<2, 1, 4>>)
        /\ (call.hist = <<2, 1, 4>> /\ call.lit_len = 0 /\ call.code = 1)
             => (call.offset = 1 /\ offset_hist = <<1, 2, 4>>)

\* the second sequence of the example has been executed
C9_Witness ==
    /\ call.op = "sequence"
    /\ call.res = "ok"
    /\ seq_i = 2
    /\ call.hist = <<2, 1, 4>>
    /\ call.lit_len = 0
    /\ call.code = 1
    /\ offset_hist = <<1, 2, 4>>

\* C10: a sequence whose offset resolves to 0 is rejected with ZeroOffset.
C10_ZeroOffsetRejected ==
    (call.op = "sequence" /\ call.offset = 0)
        => (pc = "error" /\ err = "ZeroOffset")

\* ------------------------------------------------------------------------
\* The window on its own: Window::new, then reset, read_from, push_buf,
\* push_rle and copy_within in any order, with lengths up to MAX_BLOCK_SIZE
\* ------------------------------------------------------------------------

\* what the window operations leave alone
besideWindow == <<src, tail, flushed_idx, last, frame, checksum, huff, fse,
                  offset_hist, literals_buf, literals_idx, sequences_len,
                  sequences_idx, seq_i, lit_idx, blk, frame_no, block_no,
                  produced, written, expected, built, used>>

\* the lengths and byte strings a caller passes
Lengths == 0 .. MAX_BLOCK_SIZE
Strings == UNION {SeqsOfLen(ByteVals, n) : n \in Lengths}

\* the record of a window call: what it was given and what it found
WindowCall(op, len, offset, res) ==
    [op |-> op, len |-> len, offset |-> offset, index |-> window.index,
     before |-> LastN(recent, Min(window.index, window.size)), res |-> res]

\* a call that ended with window w, having appended `appended`
WindowReturns(w, appended, this) ==
    /\ window' = Live(w)
    /\ recent' = LastN(recent \o appended, w.size)
    /\ call' = this
    /\ UNCHANGED <<pc, err, besideWindow>>

\* a call whose slice buf[index .. index + len] is out of range
WindowPanics(len) ==
    /\ ~InBounds(window, len)
    /\ Panic("SliceIndex")
    /\ UNCHANGED <<window, recent, call, besideWindow>>

\* Window::reset(size)
WReset ==
    /\ pc = "window"
    /\ UNCHANGED <<libVars, shiftVars>>
    /\ \E size \in 0 .. MAX_WINDOW_SIZE :
         IF WindowResetAssert(window, size)
         THEN /\ window' = Live(WindowReset(window, size))
              /\ recent' = <<>>
              /\ call' = [op |-> "reset"]
              /\ UNCHANGED <<pc, err, besideWindow>>
         ELSE /\ Panic("WindowResetAssert")
              /\ UNCHANGED <<window, recent, call, besideWindow>>

\* Window::read_from(src, len): read_exact fills the target with data, or
\* fails, and then index stays where the shift left it (what read_exact
\* has written lies at index and above)
WReadFrom ==
    /\ pc = "window"
    /\ UNCHANGED <<libVars, shiftVars>>
    /\ \/ \E data \in Strings :
            \/ WindowPanics(Len(data))
            \/ /\ InBounds(window, Len(data))
               /\ WindowReturns(ReadFrom(window, data), data,
                                WindowCall("read_from", Len(data), 0, "ok"))
       \/ \E len \in Lengths \ {0} :
            /\ InBounds(window, len)
            /\ WindowReturns(Prepared(window, len), <<>>,
                             WindowCall("read_from", len, 0, "UnexpectedEof"))

\* Window::push_buf(data)
WPushBuf ==
    /\ pc = "window"
    /\ UNCHANGED <<libVars, shiftVars>>
    /\ \E data \in Strings :
         \/ WindowPanics(Len(data))
         \/ /\ InBounds(window, Len(data))
            /\ WindowReturns(PushBuf(window, data), data,
                             WindowCall("push_buf", Len(data), 0, "ok"))

\* Window::push_rle(byte, count)
WPushRle ==
    /\ pc = "window"
    /\ UNCHANGED <<libVars, shiftVars>>
    /\ \E byte \in ByteVals, count \in Lengths :
         \/ WindowPanics(count)
         \/ /\ InBounds(window, count)
            /\ WindowReturns(PushRle(window, byte, count), [i \in 1 .. count |-> byte],
                             WindowCall("push_rle", count, 0, "ok"))

\* Window::copy_within(offset, n_bytes)
WCopyWithin ==
    /\ pc = "window"
    /\ UNCHANGED <<libVars, shiftVars>>
    /\ \E offset \in 0 .. (MAX_WINDOW_SIZE + 1), n_bytes \in Lengths :
         IF CopyRejects(window, offset, n_bytes)
         THEN WindowReturns(CopyWithin(window, offset, n_bytes), <<>>,
                            WindowCall("copy_within", n_bytes, offset,
                                       "CopiedSizeOutOfBounds"))
         ELSE \/ WindowPanics(n_bytes)
              \/ /\ InBounds(window, n_bytes)
                 /\ LET w == CopyWithin(window, offset, n_bytes)
                    IN  WindowReturns(w, Slice(w.buf, w.index - n_bytes, w.index),
                                      WindowCall("copy_within", n_bytes, offset, "ok"))

NextWindow ==
    \/ WReset
    \/ WReadFrom
    \/ WPushBuf
    \/ WPushRle
    \/ WCopyWithin

InitWindow == Fresh("window")

SpecWindow == InitWindow /\ [][NextWindow]_vars

WindowOps == {"read_from", "push_buf", "push_rle", "copy_within"}

\* the bytes the call just made has appended
CallAppended == IF call.res = "ok" THEN call.len ELSE 0

\* the call just made has moved the bytes of the window (it has shifted)
CallShifted == window.index - CallAppended # call.index

\* C6: no window call indexes outside buf and index stays within buf; a
\* call shifts only when index + len > buf.len(), the shift puts the last
\* `size` bytes at the front and index at size; the last min(index, size)
\* bytes of the window are the bytes most recently appended.
C6_WindowKeepsHistory ==
    /\ err # "SliceIndex"
    /\ window.index <= BufLenOf(window)
    /\ History(window) = LastN(recent, Min(window.index, window.size))
    /\ (call.op \in WindowOps /\ CallShifted)
         => /\ call.index + call.len > BufLenOf(window)
            /\ window.index - CallAppended = window.size
            /\ Slice(window.buf, 0, window.size) = call.before

\* a push has shifted a window that held the byte 1 in its history
C6_Witness ==
    /\ call.op = "push_buf"
    /\ CallShifted
    /\ call.len > 0
    /\ window.size = MAX_WINDOW_SIZE - 1
    /\ \E i \in 1 .. Len(call.before) : call.before[i] = 1

\* the copy of n bytes from `offset` back, one byte at a time, each byte
\* readable by the ones after it
RECURSIVE PropagatingCopy(_, _, _)
PropagatingCopy(h, offset, n) ==
    IF n = 0 THEN <<>>
    ELSE LET b == h[Len(h) - offset + 1]
         IN  <<b>> \o PropagatingCopy(h \o <<b>>, offset, n - 1)

\* C7: copy_within(offset, n) with 1 <= offset <= min(index, size) appends
\* exactly the n bytes of the byte-by-byte propagating copy, after the
\* history it found, whether or not it has shifted the window first.
C7_CopyWithinPropagates ==
    (call.op = "copy_within" /\ call.offset \in 1 .. Len(call.before)) =>
        /\ call.res = "ok"
        /\ window.index = (IF CallShifted THEN window.size ELSE call.index) + call.len
        /\ LastN(AsSlice(window), Len(call.before) + call.len)
             = call.before \o PropagatingCopy(call.before, call.offset, call.len)

\* a doubling copy of a history that is not constant, after a shift
C7_Witness ==
    /\ call.op = "copy_within"
    /\ call.res = "ok"
    /\ call.offset > 1
    /\ call.offset < call.len
    /\ CallShifted
    /\ call.before[1] # call.before[2]

\* ------------------------------------------------------------------------
\* ReverseBitReader (rzstd_io/src/reverse_bit_reader.rs).  A reader is
\* [src, buf, bit_count]: src the bytes not yet loaded, buf the u64
\* register as its bits 0 .. 63, bit_count the number of valid bits.  A
\* value of n bits is the sequence of its bits, lowest first.
\* ------------------------------------------------------------------------

\* u64::BITS, the width of buf
REG_BITS == 64

\* read: assert!(n_bits <= 56)
MAX_READ_BITS == 56

\* the longest byte slice a reader is built over
MaxStreamLen == 9

\* the byte values of the slices: the last byte of a slice is any of
\* StreamLastVals; the bytes before it are any of StreamBodyVals in a short
\* slice, and BodyByte(i) at place i in a long one
StreamLastVals == {0, 1, 29, 166}
StreamBodyVals == {29, 166}
ShortStreamLen == 2
BodyByte(i) == IF i % 3 = 1 THEN 29 ELSE IF i % 3 = 2 THEN 166 ELSE 75

\* the slices a reader is built over
StreamInputs ==
    {<<>>} \cup
    UNION {{body \o <<l>> : body \in SeqsOfLen(StreamBodyVals, n), l \in StreamLastVals} :
              n \in 0 .. ShortStreamLen} \cup
    {[i \in 1 .. n |-> BodyByte(i)] \o <<l>> :
        n \in (ShortStreamLen + 1) .. (MaxStreamLen - 1), l \in StreamLastVals}

\* the sizes read() is called with
ReadSizes == {0, 1, 3, 8, MAX_READ_BITS}

Pow2(n) == 2 ^ n

\* bit i of a byte
BitOf(byte, i) == (byte \div Pow2(i)) % 2

\* u8::leading_zeros of a non-zero byte
LeadingZeros8(byte) == 7 - (CHOOSE p \in 0 .. 7 : Pow2(p) <= byte /\ byte < Pow2(p + 1))

\* ReverseBitReader::new: the error it returns, "ok" otherwise
RbrNewResult(b) ==
    IF b = <<>> THEN "EmptyStream"
    ELSE IF b[Len(b)] = 0 THEN "MissingSentinel"
    ELSE "ok"

\* ReverseBitReader::new on a slice it accepts
RbrNew(b) ==
    LET last_byte == b[Len(b)]
        bit_count == (8 - LeadingZeros8(last_byte)) - 1
    IN  [src |-> SubSeq(b, 1, Len(b) - 1),
         buf |-> [i \in 0 .. (REG_BITS - 1) |->
                     IF i < bit_count THEN BitOf(last_byte, i) ELSE 0],
         bit_count |-> bit_count]

\* ReverseBitReader::bits_remaining
BitsRemaining(r) == r.bit_count + Len(r.src) * 8

\* ReverseBitReader::peek: self.buf & ((1 << n_bits) - 1)
RbrPeek(r, n_bits) == [i \in 1 .. n_bits |-> r.buf[i - 1]]

\* ReverseBitReader::consume_unchecked
ConsumeUnchecked(r, n_bits) ==
    [r EXCEPT !.buf = [i \in 0 .. (REG_BITS - 1) |->
                          IF i + n_bits < REG_BITS THEN r.buf[i + n_bits] ELSE 0],
              !.bit_count = r.bit_count - n_bits]

\* ReverseBitReader::refill_cold
RefillCold(r, count) ==
    LET avail == Len(r.src)
        to_read == Min(count, avail)
        start == avail - to_read
        \* bit i of the bytes or-ed into buf
        loaded(i) == \E idx \in 0 .. (to_read - 1) :
                        LET sh == r.bit_count + idx * 8
                        IN  /\ i >= sh
                            /\ i < sh + 8
                            /\ BitOf(r.src[avail - idx], i - sh) = 1
    IN  [src |-> SubSeq(r.src, 1, start),
         buf |-> [i \in 0 .. (REG_BITS - 1) |->
                     IF r.buf[i] = 1 \/ loaded(i) THEN 1 ELSE 0],
         bit_count |-> r.bit_count + to_read * 8]

\* ReverseBitReader::refill (bit_count < 64 holds where it is called)
Refill(r) ==
    LET count == (REG_BITS - r.bit_count) \div 8
        to_read == Min(count, Len(r.src))
        start == Len(r.src) - 8
    IN  IF count = 0 THEN r
        ELSE IF to_read < 8 THEN RefillCold(r, to_read)
        ELSE [src |-> SubSeq(r.src, 1, start),
              buf |-> [i \in 0 .. (REG_BITS - 1) |->
                          BitOf(r.src[start + 1 + (7 - (i \div 8))], i % 8)],
              bit_count |-> REG_BITS]

\* the reader as ensure_bits leaves it
Ensured(r, n_bits) == IF r.bit_count < n_bits THEN Refill(r) ELSE r

\* an ensure_bits that never refills
EnsureBitsNoRefill(r, n_bits) ==
    IF r.bit_count < n_bits THEN "NotEnoughBits" ELSE "ok"

\* ReverseBitReader::ensure_bits: what it returns
EnsureBits(r, n_bits) ==
    IF Ensured(r, n_bits).bit_count < n_bits THEN "NotEnoughBits" ELSE "ok"

\* read, lines 57-60, on the reader e that ensure_bits has left: peek,
\* consume_unchecked, Ok(ret)
ReadEnsured(e, n_bits) ==
    [r |-> ConsumeUnchecked(e, n_bits), res |-> "ok", val |-> RbrPeek(e, n_bits)]

\* ReverseBitReader::read: [r, res, val]
RbrRead(r, n_bits) ==
    IF EnsureBits(r, n_bits) = "ok"
    THEN ReadEnsured(Ensured(r, n_bits), n_bits)
    ELSE [r |-> Ensured(r, n_bits), res |-> "NotEnoughBits", val |-> <<>>]

\* ------------------------------------------------------------------------
\* The reverse bit reader on its own: new over a slice, then reads
\* ------------------------------------------------------------------------

besideReader == <<src, tail, shifts, shifted, window, flushed_idx, last, frame,
                  checksum, huff,
                  fse, offset_hist, literals_buf, literals_idx, sequences_len,
                  sequences_idx, seq_i, lit_idx, blk, frame_no, block_no,
                  produced, written, expected, built, used, recent, call,
                  input, dtable, decoders, sequences>>

\* ReverseBitReader::new(input)
BitsNew ==
    /\ pc = "bits_new"
    /\ IF RbrNewResult(input) = "ok"
       THEN /\ reader' = RbrNew(input)
            /\ pc' = "bits"
            /\ err' = err
       ELSE /\ reader' = reader
            /\ Fail(RbrNewResult(input))
    /\ out' = [op |-> "new", res |-> RbrNewResult(input), n |-> 0, val |-> <<>>,
               before |-> 0, got |-> <<>>, ones |-> TRUE]
    /\ UNCHANGED besideReader

\* ReverseBitReader::read(n_bits); the reader is dropped after an error
BitsRead ==
    /\ pc = "bits"
    /\ out.res = "ok"
    /\ \E n_bits \in ReadSizes :
         LET rd == RbrRead(reader, n_bits)
         IN  /\ reader' = rd.r
             /\ out' = [op |-> "read", res |-> rd.res, n |-> n_bits, val |-> rd.val,
                        before |-> BitsRemaining(reader), got |-> out.got \o rd.val,
                        ones |-> out.ones /\ n_bits = 1]
    /\ UNCHANGED <<pc, err, besideReader>>

NextBits ==
    \/ BitsNew
    \/ BitsRead

InitBits == Constructed("bits_new") /\ input \in StreamInputs

SpecBits == InitBits /\ [][NextBits]_vars

\* the bits of a byte from bit `top` down to bit 0
BitsDownFrom(byte, top) == [i \in 1 .. (top + 1) |-> BitOf(byte, top + 1 - i)]

\* the bits of bytes b[1 .. n], last byte first, each byte from bit 7 down
RECURSIVE TailToHead(_, _)
TailToHead(b, n) ==
    IF n = 0 THEN <<>> ELSE BitsDownFrom(b[n], 7) \o TailToHead(b, n - 1)

\* the index of the highest set bit of a non-zero byte
HighBit(byte) == CHOOSE p \in 0 .. 7 : Pow2(p) <= byte /\ byte < Pow2(p + 1)

\* the bits of b below the sentinel, from the bit just below it, then the
\* bytes before the last from the tail to the head
SentinelStripped(b) ==
    LET p == HighBit(b[Len(b)])
    IN  (IF p = 0 THEN <<>> ELSE BitsDownFrom(b[Len(b)], p - 1)) \o TailToHead(b, Len(b) - 1)

\* C11: the bits read one at a time from a reader over b are the bits of b
\* with the sentinel stripped, from the bit just below the sentinel down
\* in the last byte, then tail to head across the bytes before it.
C11_ReadsBelowSentinelFirst ==
    (pc = "bits" /\ out.ones)
        => IsPrefix(out.got, SentinelStripped(input))

\* C12: a reader over b starts with 8 * (len(b) - 1) + p bits remaining, p
\* the highest set bit of the last byte; a read of n <= 56 bits fails with
\* NotEnoughBits exactly when n exceeds the bits remaining and then leaves
\* them as they were, and otherwise lowers them by n.
C12_BitsRemainingCounts ==
    pc = "bits" =>
        /\ out.op = "new"
             => BitsRemaining(reader) = 8 * (Len(input) - 1) + HighBit(input[Len(input)])
        /\ out.op = "read"
             => /\ out.res = "NotEnoughBits" <=> out.n > out.before
                /\ out.res = "ok" => BitsRemaining(reader) = out.before - out.n
                /\ out.res # "ok" => BitsRemaining(reader) = out.before
                /\ out.res \in {"ok", "NotEnoughBits"}

\* a read that had to refill from the slice has failed
C12_Witness ==
    /\ pc = "bits"
    /\ out.op = "read"
    /\ out.res = "NotEnoughBits"
    /\ out.n <= MAX_READ_BITS
    /\ out.before >= 8
    /\ Len(out.got) > 0

\* ------------------------------------------------------------------------
\* FSE decoding tables (rzstd_fse/src/decode.rs).  A distribution is
\* [final_counts, symbol_state, symbol_count, has_low_prob, accuracy_log],
\* its arrays indexed from 1 (symbol s is at s + 1); a table is a function
\* from 0 .. n - 1 to entries [symbol, n_bits, baseline].
\* ------------------------------------------------------------------------

\* ACCURACY_LOG_RANGE = 5..=15
MIN_ACCURACY_LOG == 5
MAX_ACCURACY_LOG == 15

\* n_bits: 0xFF, the mark of a slot that spreading has assigned
SPREAD_MARK == 255

\* LL_DIST.predefined_table and its accuracy log (lib.rs:26-33)
LL_PREDEFINED ==
    <<4, 3, 2, 2, 2, 2, 2, 2, 2, 2, 2, 2, 2, 1, 1, 1, 2, 2, 2, 2, 2, 2, 2, 2, 2, 3, 2,
      1, 1, 1, 1, 1, -1, -1, -1, -1>>
LL_PREDEFINED_LOG == 6

\* the counts of the distributions a table is built from, and the most
\* symbols of one
CountVals == {-1, 0, 1, 2, 3, 4, 5, 9, 13, 22, 27, 30, 31, 32}
MaxDistSymbols == 3

RECURSIVE SumCounts(_)
SumCounts(counts) ==
    IF counts = <<>> THEN 0
    ELSE (IF Head(counts) = -1 THEN 1 ELSE Head(counts)) + SumCounts(Tail(counts))

\* NormalizedDistribution::from_predefined (NormalizedDistribution::read
\* leaves the same symbol_state and has_low_prob for the counts it reads)
FromPredefined(counts, accuracy_log) ==
    [final_counts |-> counts,
     symbol_state |-> [i \in 1 .. Len(counts) |-> IF counts[i] = -1 THEN 1 ELSE counts[i]],
     symbol_count |-> Len(counts),
     has_low_prob |-> \E i \in 1 .. Len(counts) : counts[i] = -1,
     accuracy_log |-> accuracy_log]

\* the distributions from_distribution is applied to: the predefined
\* literal-length distribution, and short ones whose counts sum to the
\* table size of the smallest accuracy log or miss it by one
DistInputs ==
    {FromPredefined(LL_PREDEFINED, LL_PREDEFINED_LOG)} \cup
    {FromPredefined(c, MIN_ACCURACY_LOG) :
        c \in {d \in UNION {SeqsOfLen(CountVals, k) : k \in 1 .. MaxDistSymbols} :
                  SumCounts(d) \in (Pow2(MIN_ACCURACY_LOG) - 1) .. (Pow2(MIN_ACCURACY_LOG) + 1)}}

\* the entries array before spreading
EmptyTable(n) == [i \in 0 .. (n - 1) |-> [symbol |-> 0, n_bits |-> 0, baseline |-> 0]]

Marked(sym) == [symbol |-> sym, n_bits |-> SPREAD_MARK, baseline |-> 0]

\* an even step, which does not visit every slot
SpreadStepEven(n) == (n \div 2) + (n \div 8) + 2

\* let step = (n >> 1) + (n >> 3) + 3
SpreadStep(n) == (n \div 2) + (n \div 8) + 3

\* spread_weights, lines 336-350: the slots of one symbol; table[..] is a
\* checked index; [res, t, pos]
RECURSIVE SpreadOne(_, _, _, _, _)
SpreadOne(t, pos, sym, remaining, n) ==
    LET step == SpreadStep(n)
    IN  IF remaining = 0 THEN [res |-> "ok", t |-> t, pos |-> pos]
        ELSE IF pos \notin DOMAIN t THEN [res |-> "panic", t |-> t, pos |-> pos]
        ELSE IF remaining >= 4
        THEN SpreadOne([t EXCEPT ![pos] = Marked(sym),
                                 ![(pos + step) % n] = Marked(sym),
                                 ![(pos + step * 2) % n] = Marked(sym),
                                 ![(pos + step * 3) % n] = Marked(sym)],
                       (pos + step * 4) % n, sym, remaining - 4, n)
        ELSE SpreadOne([t EXCEPT ![pos] = Marked(sym)],
                       (pos + step) % n, sym, remaining - 1, n)

\* spread_weights, lines 324-351: the symbols from index i on
RECURSIVE SpreadFrom(_, _, _, _, _)
SpreadFrom(dist, t, pos, i, n) ==
    IF i > dist.symbol_count THEN [res |-> "ok", t |-> t, pos |-> pos]
    ELSE IF dist.final_counts[i] <= 0 THEN SpreadFrom(dist, t, pos, i + 1, n)
    ELSE LET one == SpreadOne(t, pos, i - 1, dist.final_counts[i], n)
         IN  IF one.res # "ok" THEN one
             ELSE SpreadFrom(dist, one.t, one.pos, i + 1, n)

\* DecodingTable::spread_weights: [res, t]
SpreadWeights(dist, t, n) ==
    LET s == SpreadFrom(dist, t, 0, 1, n)
    IN  [res |-> IF s.res # "ok" THEN s.res
                 ELSE IF s.pos # 0 THEN "FastSpreadAlignmentError" ELSE "ok",
         t |-> s.t]

\* spread_symbols_low_prob, lines 371-380: the symbols of count -1, from
\* index i on, take the slots below high_threshold; high_threshold is a
\* usize and table[..] a checked index; [res, t, high_threshold]
RECURSIVE LowProbTop(_, _, _, _)
LowProbTop(dist, t, high_threshold, i) ==
    IF i > dist.symbol_count
    THEN [res |-> "ok", t |-> t, high_threshold |-> high_threshold]
    ELSE IF dist.final_counts[i] = -1
    THEN IF high_threshold - 1 \notin DOMAIN t
         THEN [res |-> "panic", t |-> t, high_threshold |-> high_threshold]
         ELSE LowProbTop(dist, [t EXCEPT ![high_threshold - 1] = Marked(i - 1)],
                         high_threshold - 1, i + 1)
    ELSE LowProbTop(dist, t, high_threshold, i + 1)

\* spread_symbols_low_prob, lines 397-399: while pos >= high_threshold
RECURSIVE SkipHigh(_, _, _)
SkipHigh(pos, high_threshold, n) ==
    IF pos >= high_threshold
    THEN SkipHigh((pos + SpreadStep(n)) % n, high_threshold, n)
    ELSE pos

\* spread_symbols_low_prob, lines 388-400: the slots of one symbol
RECURSIVE LowProbOne(_, _, _, _, _, _)
LowProbOne(t, pos, sym, remaining, high_threshold, n) ==
    IF remaining = 0 THEN [res |-> "ok", t |-> t, pos |-> pos]
    ELSE IF pos \notin DOMAIN t THEN [res |-> "panic", t |-> t, pos |-> pos]
    ELSE LowProbOne([t EXCEPT ![pos] = Marked(sym)],
                    SkipHigh((pos + SpreadStep(n)) % n, high_threshold, n),
                    sym, remaining - 1, high_threshold, n)

\* spread_symbols_low_prob, lines 383-401: the symbols from index i on
RECURSIVE LowProbFrom(_, _, _, _, _, _)
LowProbFrom(dist, t, pos, i, high_threshold, n) ==
    IF i > dist.symbol_count THEN [res |-> "ok", t |-> t, pos |-> pos]
    ELSE IF dist.final_counts[i] <= 0
    THEN LowProbFrom(dist, t, pos, i + 1, high_threshold, n)
    ELSE LET one == LowProbOne(t, pos, i - 1, dist.final_counts[i], high_threshold, n)
         IN  IF one.res # "ok" THEN one
             ELSE LowProbFrom(dist, one.t, one.pos, i + 1, high_threshold, n)

\* DecodingTable::spread_symbols_low_prob: [res, t]
SpreadSymbolsLowProb(dist, t, n) ==
    LET top == LowProbTop(dist, t, n, 1)
        s == LowProbFrom(dist, top.t, 0, 1, top.high_threshold, n)
    IN  IF top.res # "ok" THEN [res |-> top.res, t |-> top.t]
        ELSE [res |-> IF s.res # "ok" THEN s.res
                      ELSE IF top.high_threshold = n /\ s.pos # 0
                      THEN "FastSpreadAlignmentError" ELSE "ok",
              t |-> s.t]

\* u16::leading_zeros
LeadingZeros16(x) ==
    IF x = 0 THEN 16
    ELSE 15 - (CHOOSE p \in 0 .. 15 : Pow2(p) <= x /\ x < Pow2(p + 1))

\* a finalization that gives every slot of a symbol the symbol's first state
NextSymbolStateStays(state, accuracy_log) == state

\* finalize_table, line 428: symbol_state[sym_idx] += 1
NextSymbolState(state, accuracy_log) == state + 1

\* finalize_table, lines 417-433: the entries i .. stop of one chunk;
\* [res, t, symbol_state]
RECURSIVE FinalizeChunk(_, _, _, _, _, _)
FinalizeChunk(t, symbol_state, i, stop, n, accuracy_log) ==
    IF i > stop THEN [res |-> "ok", t |-> t, symbol_state |-> symbol_state]
    ELSE IF t[i].n_bits = 0
    THEN [res |-> "TableUnderfilled", t |-> t, symbol_state |-> symbol_state]
    ELSE LET sym_idx == t[i].symbol + 1
             state == symbol_state[sym_idx]
             n_bits == (accuracy_log + LeadingZeros16(state)) - 15
         IN  IF state = 0
             THEN [res |-> "InvalidState", t |-> t, symbol_state |-> symbol_state]
             ELSE FinalizeChunk(
                    [t EXCEPT ![i] = [symbol |-> t[i].symbol, n_bits |-> n_bits,
                                      baseline |-> (((state * Pow2(n_bits)) % 65536)
                                                        + 65536 - n) % 65536]],
                    [symbol_state EXCEPT ![sym_idx] = NextSymbolState(state, accuracy_log)],
                    i + 1, stop, n, accuracy_log)

\* finalize_table, line 416: table.chunks_exact_mut(4), from the chunk at i on
RECURSIVE FinalizeFrom(_, _, _, _, _)
FinalizeFrom(t, symbol_state, i, n, accuracy_log) ==
    IF i + 4 > n THEN [res |-> "ok", t |-> t]
    ELSE LET chunk == FinalizeChunk(t, symbol_state, i, i + 3, n, accuracy_log)
         IN  IF chunk.res # "ok" THEN [res |-> chunk.res, t |-> chunk.t]
             ELSE FinalizeFrom(chunk.t, chunk.symbol_state, i + 4, n, accuracy_log)

\* DecodingTable::finalize_table
FinalizeTable(t, symbol_state, n, accuracy_log) ==
    FinalizeFrom(t, symbol_state, 0, n, accuracy_log)

\* DecodingTable::from_distribution: [res, t]
FromDistribution(dist) ==
    LET accuracy_log == dist.accuracy_log
        n == Pow2(accuracy_log)
    IN  IF accuracy_log < MIN_ACCURACY_LOG \/ accuracy_log > MAX_ACCURACY_LOG
        THEN [res |-> "InvalidAccuracyLog", t |-> <<>>]
        ELSE LET spread == IF ~dist.has_low_prob
                           THEN SpreadWeights(dist, EmptyTable(n), n)
                           ELSE SpreadSymbolsLowProb(dist, EmptyTable(n), n)
             IN  IF spread.res # "ok" THEN spread
                 ELSE FinalizeTable(spread.t, dist.symbol_state, n, accuracy_log)

\* ------------------------------------------------------------------------
\* Building an FSE table from a distribution
\* ------------------------------------------------------------------------

besideTable == <<src, tail, shifts, shifted, window, flushed_idx, last, frame,
                  checksum, huff,
                 fse, offset_hist, literals_buf, literals_idx, sequences_len,
                 sequences_idx, seq_i, lit_idx, blk, frame_no, block_no,
                 produced, written, expected, built, used, recent, call,
                 input, reader, decoders, sequences>>

\* DecodingTable::from_distribution(&mut input)
FseBuild ==
    /\ pc = "fse_build"
    /\ LET made == FromDistribution(input)
       IN  /\ dtable' = made.t
           /\ out' = [op |-> "from_distribution", res |-> made.res]
           /\ IF made.res = "ok" THEN pc' = "fse_built" /\ err' = err
              ELSE IF made.res = "panic" THEN Panic("index out of bounds")
              ELSE Fail(made.res)
    /\ UNCHANGED besideTable

NextFse == FseBuild

InitFse == Constructed("fse_build") /\ input \in DistInputs

SpecFse == InitFse /\ [][NextFse]_vars

\* the counts of input sum to the size of its table
DistSumsToN == SumCounts(input.final_counts) = Pow2(input.accuracy_log)

\* the slots of a table that hold symbol sym
SlotsOf(t, sym) == {i \in DOMAIN t : t[i].symbol = sym}

Abs(x) == IF x < 0 THEN -x ELSE x

\* C13: from a distribution whose counts sum to N = 2^accuracy_log,
\* from_distribution succeeds; the table has N slots, every one assigned
\* (not left as the empty entry), and each symbol holds as many slots as
\* its |count|, the symbols of count -1 one slot each at the top.
C13_TableFullyFilled ==
    (pc # "fse_build" /\ DistSumsToN) =>
        /\ pc = "fse_built"
        /\ DOMAIN dtable = 0 .. (Pow2(input.accuracy_log) - 1)
        /\ \A i \in DOMAIN dtable : dtable[i].n_bits # SPREAD_MARK
        /\ \A s \in 1 .. input.symbol_count :
             Cardinality(SlotsOf(dtable, s - 1)) = Abs(input.final_counts[s])
        /\ \A i \in DOMAIN dtable : dtable[i].symbol < input.symbol_count
        /\ \A s \in 1 .. input.symbol_count :
             input.final_counts[s] = -1 =>
                 \E i \in DOMAIN dtable :
                     /\ dtable[i].symbol = s - 1
                     /\ i >= Pow2(input.accuracy_log)
                             - Cardinality({x \in 1 .. input.symbol_count :
                                               input.final_counts[x] = -1})

\* a table built on the low-probability path from three symbols
C13_Witness ==
    /\ pc = "fse_built"
    /\ input.has_low_prob
    /\ input.symbol_count = MaxDistSymbols
    /\ input.final_counts[1] = 30
    /\ dtable[Pow2(MIN_ACCURACY_LOG) - 1].symbol = 1

\* floor(log2(x)) of a positive x
Log2Floor(x) == CHOOSE p \in 0 .. 16 : Pow2(p) <= x /\ x < Pow2(p + 1)

\* the state the slot at index i of a built table was finalized with: the
\* symbol's max(count, 1) plus the number of earlier slots of the symbol
SlotState(i) ==
    LET count == input.final_counts[dtable[i].symbol + 1]
    IN  (IF count > 1 THEN count ELSE 1)
            + Cardinality({j \in SlotsOf(dtable, dtable[i].symbol) : j < i})

IsEntry(i, symbol, n_bits, baseline) ==
    dtable[i] = [symbol |-> symbol, n_bits |-> n_bits, baseline |-> baseline]

\* C14: in a built table the k-th slot of a symbol, in index order, has
\* state = max(count, 1) + k, n_bits = accuracy_log - floor(log2(state)) and
\* baseline = (state << n_bits) - N; the predefined literal-length table
\* has the entries of RFC 8878 appendix A at states 0, 1, 2, 60 and 63.
C14_FinalizedInIndexOrder ==
    pc = "fse_built" =>
        /\ \A i \in DOMAIN dtable :
             LET state == SlotState(i)
                 n_bits == input.accuracy_log - Log2Floor(state)
             IN  /\ dtable[i].n_bits = n_bits
                 /\ dtable[i].baseline = state * Pow2(n_bits) - Pow2(input.accuracy_log)
        /\ input.final_counts = LL_PREDEFINED =>
             /\ IsEntry(0, 0, 4, 0)
             /\ IsEntry(1, 0, 4, 16)
             /\ IsEntry(2, 1, 5, 32)
             /\ IsEntry(60, 35, 6, 0)
             /\ IsEntry(63, 32, 6, 0)

\* the predefined literal-length table is built, its second slot being the
\* second slot of symbol 0
C14_Witness ==
    /\ pc = "fse_built"
    /\ input.final_counts = LL_PREDEFINED
    /\ input.accuracy_log = LL_PREDEFINED_LOG
    /\ dtable[1].symbol = 0
    /\ dtable[1].baseline > dtable[0].baseline

\* ------------------------------------------------------------------------
\* Huff0 decoding tables (rzstd_huff0/src/decode.rs).  weights is a
\* sequence (symbol s at s + 1); bit_rank and next_code are arrays over
\* 0 ..= MAX_BITS; entries is an array over 0 .. TABLE_SIZE - 1.
\* ------------------------------------------------------------------------

MAX_BITS == 11

TABLE_SIZE == Pow2(MAX_BITS)

\* the weights a table is built from, and the most of them in one vector
WeightVals == {0, 1, 2, 3, 10, MAX_BITS}
MaxWeights == 3

WeightInputs == UNION {SeqsOfLen(WeightVals, k) : k \in 1 .. MaxWeights}

\* u32::ilog2 of a positive x
ILog2(x) == CHOOSE p \in 0 .. 30 : Pow2(p) <= x /\ (p = 30 \/ x < Pow2(p + 1))

\* u32::is_power_of_two
IsPowerOfTwo(x) == \E p \in 0 .. 30 : x = Pow2(p)

ZeroRanks == [w \in 0 .. MAX_BITS |-> 0]

\* from_weights, lines 97-105: [res, sum, bit_rank] of the weights from
\* index i on; bit_rank[..] is a checked index
RECURSIVE WeighFrom(_, _, _, _)
WeighFrom(weights, i, sum, bit_rank) ==
    IF i > Len(weights) THEN [res |-> "ok", sum |-> sum, bit_rank |-> bit_rank]
    ELSE LET w == weights[i]
         IN  IF w <= 0 THEN WeighFrom(weights, i + 1, sum, bit_rank)
             ELSE IF w \notin DOMAIN bit_rank
             THEN [res |-> "panic", sum |-> sum, bit_rank |-> bit_rank]
             ELSE WeighFrom(weights, i + 1, sum + Pow2(w - 1),
                            [bit_rank EXCEPT ![w] = @ + 1])

\* from_weights, lines 124-127: for w in 1..=max_bits; [res, next_code, curr]
RECURSIVE NextCodeFrom(_, _, _, _, _)
NextCodeFrom(next_code, bit_rank, curr, w, max_bits) ==
    IF w > max_bits THEN [res |-> "ok", next_code |-> next_code, curr |-> curr]
    ELSE IF w \notin DOMAIN next_code \/ w \notin DOMAIN bit_rank
    THEN [res |-> "panic", next_code |-> next_code, curr |-> curr]
    ELSE NextCodeFrom([next_code EXCEPT ![w] = curr], bit_rank,
                      curr + bit_rank[w] * Pow2(w - 1), w + 1, max_bits)

\* an entry width that forgets the - 1 of the weight
SlotBitsOfWeight(max_bits, w) == max_bits - w

\* from_weights, line 147: let n_bits = max_bits - (w - 1)
SlotBits(max_bits, w) == max_bits - (w - 1)

\* from_weights, lines 150-156: entries[code_start + i] for i in 0..num_slots
FillSlots(entries, code_start, num_slots, e) ==
    [j \in DOMAIN entries |->
        IF code_start <= j /\ j < code_start + num_slots THEN e ELSE entries[j]]

\* from_weights, lines 137-159: the symbols from index i of
\* weights.chain(once(inferred_weight)) on; [res, entries]
RECURSIVE FillFrom(_, _, _, _, _)
FillFrom(all, i, entries, next_code, max_bits) ==
    IF i > Len(all) THEN [res |-> "ok", entries |-> entries]
    ELSE LET w == all[i]
         IN  IF w <= 0 THEN FillFrom(all, i + 1, entries, next_code, max_bits)
             ELSE IF w \notin DOMAIN next_code
             THEN [res |-> "panic", entries |-> entries]
             ELSE LET code_start == next_code[w]
                      num_slots == Pow2(w - 1)
                  IN  IF code_start + num_slots - 1 \notin DOMAIN entries
                      THEN [res |-> "panic", entries |-> entries]
                      ELSE FillFrom(all, i + 1,
                                    FillSlots(entries, code_start, num_slots,
                                              [symbol |-> (i - 1) % 256,
                                               n_bits |-> SlotBits(max_bits, w)]),
                                    [next_code EXCEPT ![w] = @ + num_slots],
                                    max_bits)

NoHuffTable(res) == [res |-> res, entries |-> <<>>, n_entries |-> 0, max_bits |-> 0]

\* DecodingTable::from_weights: [res, entries, n_entries, max_bits]
FromWeights(weights) ==
    LET weighed == WeighFrom(weights, 1, 0, ZeroRanks)
        sum == weighed.sum
    IN  IF weighed.res # "ok" THEN NoHuffTable(weighed.res)
        ELSE IF sum = 0 THEN NoHuffTable("ZeroWeightSum")
        ELSE
        LET max_bits == ILog2(sum) + 1
            target == Pow2(max_bits)
            remainder == target - sum
        IN  IF remainder = 0 \/ ~IsPowerOfTwo(remainder)
            THEN NoHuffTable("InvalidInferredWeight")
            ELSE
            LET inferred_weight == ILog2(remainder) + 1
            IN  IF inferred_weight \notin DOMAIN weighed.bit_rank
                THEN NoHuffTable("panic")
                ELSE
                LET bit_rank == [weighed.bit_rank EXCEPT ![inferred_weight] = @ + 1]
                    codes == NextCodeFrom(ZeroRanks, bit_rank, 0, 1, max_bits)
                IN  IF codes.res # "ok" THEN NoHuffTable(codes.res)
                    ELSE IF codes.curr # target THEN NoHuffTable("TableUnderflow")
                    ELSE
                    LET filled == FillFrom(weights \o <<inferred_weight>>, 1,
                                           [j \in 0 .. (TABLE_SIZE - 1) |->
                                               [symbol |-> 0, n_bits |-> 0]],
                                           codes.next_code, max_bits)
                    IN  IF filled.res # "ok" THEN NoHuffTable(filled.res)
                        ELSE [res |-> "ok", entries |-> filled.entries,
                              n_entries |-> target, max_bits |-> max_bits]

\* DecodingTable::from_weights(&input)
HuffBuild ==
    /\ pc = "huff_build"
    /\ LET made == FromWeights(input)
       IN  /\ dtable' = made
           /\ out' = [op |-> "from_weights", res |-> made.res]
           /\ IF made.res = "ok" THEN pc' = "huff_built" /\ err' = err
              ELSE IF made.res = "panic" THEN Panic("index out of bounds")
              ELSE Fail(made.res)
    /\ UNCHANGED besideTable

NextHuff == HuffBuild

InitHuff == Constructed("huff_build") /\ input \in WeightInputs

SpecHuff == InitHuff /\ [][NextHuff]_vars

\* C15: from a weight vector with entries in 0 ..= 11, from_weights returns
\* a table with max_bits <= 11 or a typed error: it does not panic on an
\* index outside bit_rank, next_code or entries.
C15_FromWeightsNeverPanics ==
    pc # "huff_build" =>
        \/ pc = "huff_built" /\ dtable.max_bits <= MAX_BITS
        \/ pc = "error"

\* the weights given and, after them, the weight inferred for the last symbol
RECURSIVE SumWeights(_)
SumWeights(weights) ==
    IF weights = <<>> THEN 0
    ELSE (IF Head(weights) > 0 THEN Pow2(Head(weights) - 1) ELSE 0)
            + SumWeights(Tail(weights))

Remainder(weights) == Pow2(Log2Floor(SumWeights(weights)) + 1) - SumWeights(weights)

AllWeights == input \o <<Log2Floor(Remainder(input)) + 1>>

\* the slots below n_entries that hold symbol sym
HuffSlotsOf(sym) ==
    {j \in 0 .. (dtable.n_entries - 1) : dtable.entries[j].symbol = sym}

\* C16: in an accepted table every symbol of weight w > 0, the inferred
\* last one included, holds exactly 2^(w-1) consecutive slots of
\* n_bits = max_bits - (w - 1); the slots tile 0 .. 2^max_bits - 1; a symbol
\* of weight 0 holds none; a vector is accepted only if the inferred
\* remainder 2^max_bits - sum is a power of two above 0, and is rejected
\* with InvalidInferredWeight otherwise.
C16_SlotsTileTheTable ==
    /\ pc = "huff_built" =>
        /\ dtable.n_entries = Pow2(dtable.max_bits)
        /\ Remainder(input) = Pow2(dtable.max_bits) - SumWeights(input)
        /\ Remainder(input) > 0 /\ IsPowerOfTwo(Remainder(input))
        /\ \A s \in 1 .. Len(AllWeights) :
             LET w == AllWeights[s]
                 slots == HuffSlotsOf(s - 1)
             IN  IF w = 0 THEN slots = {}
                 ELSE /\ Cardinality(slots) = Pow2(w - 1)
                      /\ \E lo \in slots : slots = lo .. (lo + Pow2(w - 1) - 1)
                      /\ \A j \in slots :
                           dtable.entries[j].n_bits = dtable.max_bits - (w - 1)
        /\ \A j \in 0 .. (dtable.n_entries - 1) :
             /\ dtable.entries[j].symbol + 1 \in 1 .. Len(AllWeights)
             /\ AllWeights[dtable.entries[j].symbol + 1] > 0
    /\ (pc # "huff_build" /\ SumWeights(input) > 0
            /\ ~(Remainder(input) > 0 /\ IsPowerOfTwo(Remainder(input))))
         => pc = "error" /\ err = "InvalidInferredWeight"

\* an accepted table of two symbols of weight 3 around one of weight 0,
\* whose inferred symbol has weight 4
C16_Witness ==
    /\ pc = "huff_built"
    /\ input = <<3, 0, 3>>
    /\ dtable.max_bits = 4
    /\ dtable.entries[4].symbol = 2
    /\ dtable.entries[8].symbol = 3

\* ------------------------------------------------------------------------
\* Huffman-coded literals (rzstd_huff0/src/decode.rs, Decoder;
\* literals_section.rs, huff_streams).  A decoder is [r, state]: its
\* reverse bit reader and its state.
\* ------------------------------------------------------------------------

\* the value of a sequence of bits, lowest first
RECURSIVE BitsValue(_)
BitsValue(bits) ==
    IF bits = <<>> THEN 0 ELSE Head(bits) + 2 * BitsValue(Tail(bits))

\* read_padded, lines 71-75: the bits taken from the refilled reader e
TakePadded(e, n_bits) ==
    [r |-> ConsumeUnchecked(e, Min(e.bit_count, n_bits)),
     val |-> BitsValue(RbrPeek(e, Min(e.bit_count, n_bits)))]

\* ReverseBitReader::read_padded (n_bits <= 56 where it is called): [r, val]
ReadPadded(r, n_bits) == TakePadded(Ensured(r, n_bits), n_bits)

\* Decoder { table, state } over the reader that read_padded left
DecoderOver(rd) == [r |-> rd.r, state |-> rd.val]

\* rzstd_huff0::Decoder::new
HuffDecoderNew(table, r) == DecoderOver(ReadPadded(r, table.max_bits))

\* Decoder::decode, lines 31-36, new_bits being rd.val: [r, state, symbol]
HuffShift(table, d, rd) ==
    [r |-> rd.r,
     state |-> ((d.state * Pow2(table.entries[d.state].n_bits)) % table.n_entries) + rd.val,
     symbol |-> table.entries[d.state].symbol]

\* rzstd_huff0::Decoder::decode: [r, state, symbol]
HuffDecode(table, d) ==
    HuffShift(table, d, ReadPadded(d.r, table.entries[d.state].n_bits))

\* what dst holds before huff_streams writes it: bytes of an earlier block
STALE == 255

\* the regenerated sizes, the streams and the tables huff_streams is given
MaxRegen == 8
RegenSizes == 0 .. MaxRegen
StreamChoices == {<<>>, <<1>>, <<3>>, <<6>>, <<13>>}
\* a table as its decoders see it: entries() is &self.entries[..self.n_entries],
\* and a decoder's state stays below n_entries
LiveEntries(t) ==
    [t EXCEPT !.entries = [j \in 0 .. (t.n_entries - 1) |-> t.entries[j]]]

HuffTables == {LiveEntries(FromWeights(<<1>>)), LiveEntries(FromWeights(<<2, 1>>))}

\* the jump table of three streams: their lengths, little-endian u16
JumpTable(a, b, c) == <<a % 256, a \div 256, b % 256, b \div 256, c % 256, c \div 256>>

\* src of four streams behind a jump table that delimits them
FourStreams(f) == JumpTable(Len(f[1]), Len(f[2]), Len(f[3])) \o f[1] \o f[2] \o f[3] \o f[4]

\* sources whose jump table is cut short, points past the end of src, or
\* points past the end of src[6..] only
BadJumpSources ==
    {<<1, 0, 1, 0, 1>>, JumpTable(1, 1, 3) \o <<1, 1, 1, 1>>,
     JumpTable(0, 1, 4) \o <<1, 1, 1, 1>>, JumpTable(3, 4, 4) \o <<1, 1, 1, 1>>,
     JumpTable(5, 0, 0) \o <<1, 1, 1, 1>>}

LiteralsInputs ==
    {[src |-> s, regen |-> n, table |-> t, streams |-> "Four"] :
        s \in {FourStreams(f) : f \in SeqsOfLen(StreamChoices, 4)} \cup BadJumpSources,
        n \in RegenSizes, t \in HuffTables}
    \cup
    {[src |-> s, regen |-> n, table |-> t, streams |-> "One"] :
        s \in StreamChoices, n \in 0 .. 2, t \in HuffTables}

NoStreams(res, dst) == [res |-> res, dst |-> dst, remaining |-> <<>>]

\* huff_streams, Streams::One, lines 76-78: for d in dst.iter_mut(), x
\* being what decoder.decode returned for dst[i]
RECURSIVE DecodeInto(_, _, _, _), DecodeStored(_, _, _, _)
DecodeStored(table, x, dst, i) ==
    DecodeInto(table, [r |-> x.r, state |-> x.state], [dst EXCEPT ![i] = x.symbol], i + 1)

DecodeInto(table, d, dst, i) ==
    IF i > Len(dst) THEN [d |-> d, dst |-> dst]
    ELSE DecodeStored(table, HuffDecode(table, d), dst, i)

\* huff_streams, Streams::One, lines 80-84
OneStreamEnd(done) ==
    [res |-> IF BitsRemaining(done.d.r) > 0 THEN "ExtraBitsInStream" ELSE "ok",
     dst |-> done.dst,
     remaining |-> <<BitsRemaining(done.d.r)>>]

\* huff_streams, Streams::One
HuffStreamsOne(stream, dst, table) ==
    IF RbrNewResult(stream) # "ok" THEN NoStreams(RbrNewResult(stream), dst)
    ELSE OneStreamEnd(DecodeInto(table, HuffDecoderNew(table, RbrNew(stream)), dst, 1))

\* a split that puts the fourth output after two chunks
Out3AfterTwoChunks(chunk, k) == (k - 1) * chunk - (IF k = 4 THEN chunk ELSE 0)

\* huff_streams, lines 124-126: where out0 .. out3 start in dst (split_at_mut)
OutStart(chunk, k) == (k - 1) * chunk

\* huff_streams, lines 134-147: rounds i .. stop - 1 of the first n of the
\* four decoders ds, each writing out_k[i]; x[k] is what decoder k returned
\* in round i
RECURSIVE DecodeRounds(_, _, _, _, _, _, _), RoundStored(_, _, _, _, _, _, _, _)
RoundStored(table, ds, dst, i, stop, chunk, n, x) ==
    DecodeRounds(
        table,
        [k \in 1 .. 4 |-> IF k <= n THEN [r |-> x[k].r, state |-> x[k].state] ELSE ds[k]],
        [j \in DOMAIN dst |->
            IF \E k \in 1 .. n : j = OutStart(chunk, k) + i + 1
            THEN x[CHOOSE k \in 1 .. n : j = OutStart(chunk, k) + i + 1].symbol
            ELSE dst[j]],
        i + 1, stop, chunk, n)

DecodeRounds(table, ds, dst, i, stop, chunk, n) ==
    IF i >= stop THEN [ds |-> ds, dst |-> dst]
    ELSE RoundStored(table, ds, dst, i, stop, chunk, n,
                     [k \in 1 .. 4 |-> HuffDecode(table, ds[k])])

\* huff_streams, lines 98-112: the four slices the jump table delimits
JumpParts(stream) ==
    LET s0 == stream[1] + stream[2] * 256
        s1 == s0 + stream[3] + stream[4] * 256
        s2 == s1 + stream[5] + stream[6] * 256
        body == Slice(stream, 7, Len(stream) + 1)
    IN  <<Slice(body, 1, s0 + 1), Slice(body, s0 + 1, s1 + 1),
          Slice(body, s1 + 1, s2 + 1), Slice(body, s2 + 1, Len(body) + 1)>>

\* the first reader of the four that ReverseBitReader::new refuses
FirstRefused(parts) ==
    CHOOSE k \in 1 .. 4 :
        /\ RbrNewResult(parts[k]) # "ok"
        /\ \A j \in 1 .. (k - 1) : RbrNewResult(parts[j]) = "ok"

\* huff_streams, lines 141-147: if chunk > burst_len, the three long streams
AfterBurst(table, burst, burst_len, chunk) ==
    IF chunk > burst_len
    THEN DecodeRounds(table, burst.ds, burst.dst, burst_len, chunk, chunk, 3)
    ELSE burst

\* huff_streams, lines 149-155: for r in readers.iter()
FourStreamsEnd(done) ==
    [res |-> IF \E k \in 1 .. 4 : BitsRemaining(done.ds[k].r) > 0
             THEN "ExtraBitsInStream" ELSE "ok",
     dst |-> done.dst,
     remaining |-> [k \in 1 .. 4 |-> BitsRemaining(done.ds[k].r)]]

\* huff_streams, lines 128-155: the four decoders over the readers of parts
FourDecoded(table, parts, dst, chunk, burst_len) ==
    FourStreamsEnd(
        AfterBurst(table,
                   DecodeRounds(table,
                                [k \in 1 .. 4 |-> HuffDecoderNew(table, RbrNew(parts[k]))],
                                dst, 0, burst_len, chunk, 4),
                   burst_len, chunk))

\* huff_streams, lines 114-155, the readers of parts made; overflow_checks
\* says whether the build panics on the usize subtraction of line 118 or
\* wraps it
FourSplit(table, parts, dst, chunk, overflow_checks) ==
    IF Len(dst) < chunk * 3
    THEN NoStreams(IF overflow_checks THEN "panic" ELSE "LiteralsBufferTooSmall", dst)
    ELSE FourDecoded(table, parts, dst, chunk, Min(chunk, Len(dst) - chunk * 3))

\* huff_streams, lines 98-112: the readers over the four slices
FourReaders(table, parts, dst, overflow_checks) ==
    IF \E k \in 1 .. 4 : RbrNewResult(parts[k]) # "ok"
    THEN NoStreams(RbrNewResult(parts[FirstRefused(parts)]), dst)
    ELSE FourSplit(table, parts, dst, (Len(dst) + 3) \div 4, overflow_checks)

\* huff_streams, lines 94-96: the k-th stream size of the jump table and
\* the offsets s0, s1, s2 (the end of the k-th stream)
JumpSize(stream, k) == stream[2 * k - 1] + stream[2 * k] * 256
JumpEnd(stream, k) ==
    IF k = 0 THEN 0
    ELSE IF k = 1 THEN JumpSize(stream, 1)
    ELSE IF k = 2 THEN JumpSize(stream, 1) + JumpSize(stream, 2)
    ELSE JumpSize(stream, 1) + JumpSize(stream, 2) + JumpSize(stream, 3)

\* the k-th slice of src[6..], lines 106-108
JumpPart(stream, k) ==
    Slice(stream, 7 + JumpEnd(stream, k - 1), 7 + JumpEnd(stream, k))

\* the first slice of lines 106-108 that ends behind src[6..]
FirstOutside(stream) ==
    CHOOSE k \in 1 .. 3 :
        /\ JumpEnd(stream, k) > Len(stream) - 6
        /\ \A j \in 1 .. (k - 1) : JumpEnd(stream, j) <= Len(stream) - 6

\* lines 105-110 when s2 is beyond src[6..]: the readers are made in order,
\* so the first reader that is refused returns its error, and the first
\* slice that ends behind src[6..] panics
ReadersOutside(stream, dst, k) ==
    IF \E j \in 1 .. (k - 1) : RbrNewResult(JumpPart(stream, j)) # "ok"
    THEN NoStreams(RbrNewResult(JumpPart(stream,
                       CHOOSE j \in 1 .. (k - 1) :
                           /\ RbrNewResult(JumpPart(stream, j)) # "ok"
                           /\ \A i \in 1 .. (j - 1) :
                                  RbrNewResult(JumpPart(stream, i)) = "ok")), dst)
    ELSE NoStreams("panic", dst)

\* huff_streams, Streams::Four
HuffStreamsFour(stream, dst, table, overflow_checks) ==
    IF Len(stream) < 6 THEN NoStreams("JumpTableError", dst)
    ELSE IF JumpEnd(stream, 3) > Len(stream)
    THEN NoStreams("JumpTableError", dst)
    ELSE IF JumpEnd(stream, 3) > Len(stream) - 6
    THEN ReadersOutside(stream, dst, FirstOutside(stream))
    ELSE FourReaders(table, JumpParts(stream), dst, overflow_checks)

\* huff_streams over literals_buf[..regen], all of it left by an earlier block
HuffStreamsOn(dst, overflow_checks) ==
    IF input.streams = "One" THEN HuffStreamsOne(input.src, dst, input.table)
    ELSE HuffStreamsFour(input.src, dst, input.table, overflow_checks)

\* the state after huff_streams returned made
HuffStreamsReturns(made) ==
    /\ out' = [op |-> "huff_streams", res |-> made.res, dst |-> made.dst,
               remaining |-> made.remaining]
    /\ IF made.res = "ok" THEN pc' = "literals_done" /\ err' = err
       ELSE IF made.res = "panic"
       THEN Panic("arithmetic overflow or index out of bounds")
       ELSE Fail(made.res)

\* Context::huff_streams(&input.src, dst, &input.table, input.streams), dst
\* being literals_buf[..input.regen]
HuffStreams ==
    /\ pc = "huff_streams"
    /\ \E overflow_checks \in BOOLEAN :
         HuffStreamsReturns(HuffStreamsOn([j \in 1 .. input.regen |-> STALE],
                                          overflow_checks))
    /\ UNCHANGED <<besideReader, reader>>

NextLiterals == HuffStreams

InitLiterals == Constructed("huff_streams") /\ input \in LiteralsInputs

SpecLiterals == InitLiterals /\ [][NextLiterals]_vars

\* the i-th chunk of regenerated size R: ceil(R/4) bytes, the fourth the rest
ChunkLen(R, k) == IF k < 4 THEN (R + 3) \div 4 ELSE R - 3 * ((R + 3) \div 4)

\* a stream decoded on its own for n symbols: [d, dst]
StreamAlone(table, part, n) ==
    DecodeInto(table, HuffDecoderNew(table, RbrNew(part)), [j \in 1 .. n |-> STALE], 1)

\* the four readers of input are made and the split is possible
FourStreamsRun ==
    /\ input.streams = "Four"
    /\ Len(input.src) >= 6
    /\ input.src[1] + input.src[3] + input.src[5] <= Len(input.src) - 6
    /\ \A k \in 1 .. 4 : RbrNewResult(JumpParts(input.src)[k]) = "ok"
    /\ ChunkLen(input.regen, 4) >= 0

\* C17: in 4-stream mode with regenerated size R the output is the four
\* chunks of ceil(R/4), ceil(R/4), ceil(R/4) and R - 3*ceil(R/4) bytes, the
\* i-th being what the i-th stream of the jump table decodes to; it
\* succeeds only if every reader has bits_remaining = 0 at the end, and
\* returns ExtraBitsInStream when one has bits left.
C17_FourStreamsFillTheirChunks ==
    (pc # "huff_streams" /\ input.streams = "Four") =>
        /\ pc = "literals_done" =>
             /\ FourStreamsRun
             /\ Len(out.dst) = input.regen
             /\ \A k \in 1 .. 4 :
                  LET alone == StreamAlone(input.table, JumpParts(input.src)[k],
                                           ChunkLen(input.regen, k))
                      start == (k - 1) * ChunkLen(input.regen, 1)
                  IN  /\ Slice(out.dst, start + 1, start + ChunkLen(input.regen, k) + 1)
                            = alone.dst
                      /\ BitsRemaining(alone.d.r) = 0
                      /\ out.remaining[k] = 0
        /\ (FourStreamsRun /\ \E k \in 1 .. 4 :
                BitsRemaining(StreamAlone(input.table, JumpParts(input.src)[k],
                                          ChunkLen(input.regen, k)).d.r) > 0)
             => pc = "error" /\ err = "ExtraBitsInStream"

\* seven literals decoded from four streams: chunks of two and a last of one
C17_Witness ==
    /\ pc = "literals_done"
    /\ input.streams = "Four"
    /\ input.regen = 7
    /\ out.dst[1] # out.dst[2]
    /\ out.dst[7] = 1
    /\ out.remaining = <<0, 0, 0, 0>>


\* the jump table of a 4-stream payload does not fit: the payload is shorter
\* than the table, or the three sizes run over what follows the table
JumpTableUnfit ==
    /\ input.streams = "Four"
    /\ \/ Len(input.src) < 6
       \/ 6 + JumpEnd(input.src, 3) > Len(input.src)

\* C26: in 4-stream mode a payload shorter than 6 bytes, or a jump table whose
\* three sizes do not fit in the payload after the table
\* (6 + s0 + s1 + s2 > payload length), yields JumpTableError, and no slice
\* is taken outside the payload.
C26_JumpTableChecked ==
    (out.op = "huff_streams" /\ JumpTableUnfit) =>
        /\ out.res = "JumpTableError"
        /\ pc # "panic"
\* ------------------------------------------------------------------------
\* A compressed block without sequences
\* ------------------------------------------------------------------------

\* C18: a compressed block whose sequences section has n_seqs = 0 appends
\* exactly its literals to the window: when block() has returned from such
\* a block (no sequence was decoded: sequences_idx is still 0), the bytes it
\* appended are as many as the regenerated_size that literals_section left
\* in literals_idx.
C18_NoSequencesAppendsLiterals ==
    (pc = "block_done" /\ sequences_idx = 0)
        => /\ Len(produced) = literals_idx
           /\ window.index = literals_idx

\* ------------------------------------------------------------------------
\* The codes of a sequence (sequences_section.rs, decode_ll, decode_ml,
\* decode_of).  LL_TABLE and ML_TABLE hold <<baseline, n_bits>>, the entry
\* of code c at c + 1.
\* ------------------------------------------------------------------------

LL_TABLE ==
    << <<0, 0>>, <<1, 0>>, <<2, 0>>, <<3, 0>>, <<4, 0>>, <<5, 0>>, <<6, 0>>, <<7, 0>>,
       <<8, 0>>, <<9, 0>>, <<10, 0>>, <<11, 0>>, <<12, 0>>, <<13, 0>>, <<14, 0>>,
       <<15, 0>>, <<16, 1>>, <<18, 1>>, <<20, 1>>, <<22, 1>>, <<24, 2>>, <<28, 2>>,
       <<32, 3>>, <<40, 3>>, <<48, 4>>, <<64, 6>>, <<128, 7>>, <<256, 8>>, <<512, 9>>,
       <<1024, 10>>, <<2048, 11>>, <<4096, 12>>, <<8192, 13>>, <<16384, 14>>,
       <<32768, 15>>, <<65536, 16>> >>

ML_TABLE ==
    << <<3, 0>>, <<4, 0>>, <<5, 0>>, <<6, 0>>, <<7, 0>>, <<8, 0>>, <<9, 0>>, <<10, 0>>,
       <<11, 0>>, <<12, 0>>, <<13, 0>>, <<14, 0>>, <<15, 0>>, <<16, 0>>, <<17, 0>>,
       <<18, 0>>, <<19, 0>>, <<20, 0>>, <<21, 0>>, <<22, 0>>, <<23, 0>>, <<24, 0>>,
       <<25, 0>>, <<26, 0>>, <<27, 0>>, <<28, 0>>, <<29, 0>>, <<30, 0>>, <<31, 0>>,
       <<32, 0>>, <<33, 0>>, <<34, 0>>, <<35, 1>>, <<37, 1>>, <<39, 1>>, <<41, 1>>,
       <<43, 2>>, <<47, 2>>, <<51, 3>>, <<59, 3>>, <<67, 4>>, <<83, 4>>, <<99, 5>>,
       <<131, 7>>, <<259, 8>>, <<515, 9>>, <<1027, 10>>, <<2051, 11>>, <<4099, 12>>,
       <<8195, 13>>, <<16387, 14>>, <<32771, 15>>, <<65539, 16>> >>

\* code as usize & 63
CODE_MASK == 64

\* the width of the u32 an offset is computed in
U32_BITS == 32

\* the symbols a table hands to decode_ll, decode_ml, decode_of, and the
\* bit streams they read their extra bits from
CodeVals == {0, 1, 3, 8, 16, 24, 31, 32, 33, 35, 36, 52, 53, 56, 57, 63, 64, 100, 255}
CodeStreams == {<<>>, <<0>>, <<1>>, <<29>>, <<166, 29>>, <<255, 255, 255, 255, 255>>}

CodeInputs ==
    [kind : {"ll", "ml", "of"}, code : CodeVals, stream : CodeStreams]

\* ReverseBitReader::read with its assert!(n_bits <= 56): [r, res, val]
ReadAsserted(r, n_bits) ==
    IF n_bits > MAX_READ_BITS THEN [r |-> r, res |-> "panic", val |-> <<>>]
    ELSE RbrRead(r, n_bits)

\* &TABLE[code as usize & 63], a checked index: [res, entry]
Lookup(table, code) ==
    IF (code % CODE_MASK) >= Len(table) THEN [res |-> "panic", entry |-> <<0, 0>>]
    ELSE [res |-> "ok", entry |-> table[(code % CODE_MASK) + 1]]

\* decode_ll and decode_ml, once the extra bits have been read (rd)
LengthFrom(baseline, rd) ==
    IF rd.res # "ok" THEN [r |-> rd.r, res |-> rd.res, val |-> 0]
    ELSE [r |-> rd.r, res |-> "ok", val |-> baseline + BitsValue(rd.val)]

\* decode_ll and decode_ml on the entry found for the code
LengthAt(found, r) ==
    IF found.res # "ok" THEN [r |-> r, res |-> found.res, val |-> 0]
    ELSE IF found.entry[2] = 0 THEN [r |-> r, res |-> "ok", val |-> found.entry[1]]
    ELSE LengthFrom(found.entry[1], ReadAsserted(r, found.entry[2]))

\* decode_ll and decode_ml over their table: [r, res, val]
DecodeLength(table, code, r) == LengthAt(Lookup(table, code), r)

DecodeLl(code, r) == DecodeLength(LL_TABLE, code, r)

DecodeMl(code, r) == DecodeLength(ML_TABLE, code, r)

\* decode_of, line 400, once the extra bits have been read (rd): the u32
\* sum (1 << shift) + extra
OffsetFrom(rd, shift, overflow_checks) ==
    LET \* extra as u32
        extra(i) == IF i < Len(rd.val) THEN rd.val[i + 1] ELSE 0
        carry(i) == i >= shift /\ \A j \in shift .. (i - 1) : extra(j) = 1
    IN  IF rd.res # "ok" THEN [r |-> rd.r, res |-> rd.res, val |-> <<>>]
        ELSE IF carry(U32_BITS) /\ overflow_checks
        THEN [r |-> rd.r, res |-> "panic", val |-> <<>>]
        ELSE [r |-> rd.r, res |-> "ok",
              val |-> [i \in 1 .. U32_BITS |->
                          IF carry(i - 1) THEN 1 - extra(i - 1) ELSE extra(i - 1)]]

\* decode_of: [r, res, val], val the 32 bits of the offset, lowest first;
\* overflow_checks says whether the build panics when the u32 addition
\* overflows or wraps it
DecodeOf(code, r, overflow_checks) ==
    OffsetFrom(ReadAsserted(r, code), code % U32_BITS, overflow_checks)

\* ReverseBitReader::new(input.stream), the reader of the sequences
CodeReader ==
    /\ pc = "code_reader"
    /\ IF RbrNewResult(input.stream) = "ok"
       THEN reader' = RbrNew(input.stream) /\ pc' = "code" /\ err' = err
       ELSE reader' = reader /\ Fail(RbrNewResult(input.stream))
    /\ out' = [op |-> "new", res |-> RbrNewResult(input.stream)]
    /\ UNCHANGED besideReader

\* decode_ll, decode_ml or decode_of of input.code
CodeDecode ==
    /\ pc = "code"
    /\ \E overflow_checks \in BOOLEAN :
         LET made == IF input.kind = "ll" THEN DecodeLl(input.code, reader)
                     ELSE IF input.kind = "ml" THEN DecodeMl(input.code, reader)
                     ELSE DecodeOf(input.code, reader, overflow_checks)
         IN  /\ reader' = made.r
             /\ out' = [op |-> "decode", res |-> made.res, val |-> made.val,
                        before |-> BitsRemaining(reader)]
             /\ IF made.res = "ok" THEN pc' = "code_done" /\ err' = err
                ELSE IF made.res = "panic"
                THEN Panic("index out of bounds, assertion or arithmetic overflow")
                ELSE Fail(made.res)
    /\ UNCHANGED besideReader

NextCodes == CodeReader \/ CodeDecode

InitCodes == Constructed("code_reader") /\ input \in CodeInputs

SpecCodes == InitCodes /\ [][NextCodes]_vars

\* C19: decode_ll, decode_ml and decode_of never panic, and return a typed
\* error for a symbol that is not a valid code: a literal-length code above
\* 35, a match-length code above 52, an offset code with more extra bits
\* than the stream holds.
C19_InvalidCodesAreTypedErrors ==
    out.op = "decode" =>
        /\ pc # "panic"
        /\ (input.kind = "ll" /\ input.code >= Len(LL_TABLE)) => pc = "error"
        /\ (input.kind = "ml" /\ input.code >= Len(ML_TABLE)) => pc = "error"
        /\ (input.kind = "of" /\ input.code > out.before) => pc = "error"

\* ------------------------------------------------------------------------
\* The buffers of the context
\* ------------------------------------------------------------------------

\* C20: the sequences buffer (like the literals and scratch buffers, which
\* no code resizes) keeps the length MAX_BLOCK_SIZE given by Context::new in
\* every reachable state, so that sequences_buf[..n_seqs] is in bounds for
\* every n_seqs <= MAX_BLOCK_SIZE.
C20_BuffersKeepLength ==
    sequences_len = MAX_BLOCK_SIZE

\* ------------------------------------------------------------------------
\* The flushing policy of decode_frame: the decoder on frames of up to
\* MaxFlushBlocks blocks whose bytes are all alike, so that the positions
\* (index, flushed_idx) are what distinguishes the runs
\* ------------------------------------------------------------------------

MaxFlushBlocks == 3

FlushBytes == {0}

\* the last-block bit of a Raw or RLE block of such a frame
FlushLasts == IF block_no + 1 < MaxFlushBlocks THEN BOOLEAN ELSE {TRUE}

FlushRaw == BlockRawOn(FlushBytes, FlushLasts)
FlushRLE == BlockRLEOn(FlushBytes, FlushLasts)

NextFlush ==
    \/ ReadMagic
    \/ ReadFrameHeader
    \/ BlockHeaderFails
    \/ FlushRaw
    \/ FlushRLE
    \/ BlockCompressed
    \/ LiteralsSection
    \/ SequenceSection
    \/ Flush
    \/ Checksum
    \/ DecodeAgain

InitFlush == Fresh("magic")

SpecFlush == InitFlush /\ [][NextFlush]_vars

\* C21: between two consecutive writes to the writer (and before the first
\* write of a frame) the window shifts at most once.
C21_OneShiftBetweenFlushes == shifts <= 1

\* C22: when the window has shifted while the block that just returned was
\* decoded, the flushed_idx that decode_frame uses to decide whether to
\* flush (lines 46-51) is 0.
C22_ShiftResetsFlushedIdx ==
    (pc = "block_done" /\ shifted) =>
        FlushedAfterBlock(window.index, flushed_idx) = 0

\* ------------------------------------------------------------------------
\* rzstd_fse::Decoder (rzstd_fse/src/decode.rs:13-56) over a DecodingTable
\* [entries, accuracy_log, filler, n]: entries the slots below
\* 1 << accuracy_log, filler the entry in each of the slots above them, n
\* the length N of the entries array.
\* ------------------------------------------------------------------------

\* OF_DIST and ML_DIST: predefined_table and predefined_accuracy_log
OF_PREDEFINED ==
    <<1, 1, 1, 1, 1, 1, 2, 2, 2, 1, 1, 1, 1, 1, 1, 1, 1, 1, 1, 1, 1, 1, 1, 1, -1, -1,
      -1, -1, -1>>
OF_PREDEFINED_LOG == 5

ML_PREDEFINED ==
    <<1, 4, 3, 2, 2, 2, 2, 2, 2, 1, 1, 1, 1, 1, 1, 1, 1, 1, 1, 1, 1, 1, 1, 1, 1, 1, 1,
      1, 1, 1, 1, 1, 1, 1, 1, 1, 1, 1, 1, 1, 1, 1, 1, 1, 1, 1, -1, -1, -1, -1, -1, -1,
      -1>>
ML_PREDEFINED_LOG == 6

\* DefaultDistribution::table_size: 1 << accuracy_log of LL_DIST, OF_DIST, ML_DIST
LL_TABLE_SIZE == 512
OF_TABLE_SIZE == 256
ML_TABLE_SIZE == 512

\* the entry `Entry { symbol: 0, n_bits: 0, baseline: 0 }` the array starts with
ZeroEntry == [symbol |-> 0, n_bits |-> 0, baseline |-> 0]

\* DecodingTable::from_distribution: Ok(Self { entries, accuracy_log })
TableFrom(t, accuracy_log, n) ==
    [entries |-> t, accuracy_log |-> accuracy_log, filler |-> ZeroEntry, n |-> n]

\* DecodingTable::rle(symbol)
TableRle(symbol, n) ==
    LET entry == [symbol |-> symbol, n_bits |-> 0, baseline |-> 0]
    IN  [entries |-> [i \in {0} |-> entry], accuracy_log |-> 0, filler |-> entry, n |-> n]

\* update_table, Mode::Predefined: from_predefined, then from_distribution
PredefinedTable(counts, accuracy_log, n) ==
    TableFrom(FromDistribution(FromPredefined(counts, accuracy_log)).t, accuracy_log, n)

\* self.table.entries[state], a checked index: [res, entry]
EntryAt(tbl, state) ==
    IF state >= tbl.n THEN [res |-> "panic", entry |-> ZeroEntry]
    ELSE IF state \in DOMAIN tbl.entries THEN [res |-> "ok", entry |-> tbl.entries[state]]
    ELSE [res |-> "ok", entry |-> tbl.filler]

\* Decoder::new, once the state has been read (rd)
DecoderFrom(rd) ==
    IF rd.res # "ok" THEN [r |-> rd.r, res |-> rd.res, state |-> 0]
    ELSE [r |-> rd.r, res |-> "ok", state |-> BitsValue(rd.val) % 65536]

\* Decoder::new: [r, res, state]
FseDecoderNew(tbl, r) == DecoderFrom(ReadAsserted(r, tbl.accuracy_log))

\* Decoder::peek: [res, symbol]
FsePeek(tbl, state) ==
    [res |-> EntryAt(tbl, state).res, symbol |-> EntryAt(tbl, state).entry.symbol]

\* a sum that is one too high
NextStateOneUp(baseline, bits) == baseline + (bits % 65536) + 1

\* line 48: entry.baseline + bits as u16
NextState(baseline, bits) == baseline + (bits % 65536)

\* update, line 48, once the bits have been read (rd); overflow_checks
\* says whether the build panics when the u16 addition overflows or wraps
StateFrom(baseline, rd, state, overflow_checks) ==
    IF rd.res # "ok" THEN [r |-> rd.r, res |-> rd.res, state |-> state]
    ELSE IF NextState(baseline, BitsValue(rd.val)) >= 65536 /\ overflow_checks
    THEN [r |-> rd.r, res |-> "panic", state |-> state]
    ELSE [r |-> rd.r, res |-> "ok",
          state |-> NextState(baseline, BitsValue(rd.val)) % 65536]

\* update on the entry found for the state
UpdateAt(found, state, r, overflow_checks) ==
    IF found.res # "ok" THEN [r |-> r, res |-> found.res, state |-> state]
    ELSE StateFrom(found.entry.baseline, ReadAsserted(r, found.entry.n_bits),
                   state, overflow_checks)

\* Decoder::update: [r, res, state]
FseUpdate(tbl, state, r, overflow_checks) ==
    UpdateAt(EntryAt(tbl, state), state, r, overflow_checks)

\* ------------------------------------------------------------------------
\* Context::sequence_section (sequences_section.rs:35-133) on its bit
\* stream: the three tables, the three decoders, then triple after triple.
\* The input is [n_seqs, modes, stream]: the header's count, the mode (and
\* RLE symbol) of each table, and the bytes left for the bit stream.
\* ------------------------------------------------------------------------

\* the most sequences of a section
MaxSectionSeqs == 3

\* the bytes of a bit stream before its last byte, and the most of them
SectionBodyVals == {29, 166}
MaxSectionBody == 5

\* the last byte of a bit stream (its highest set bit is the sentinel)
SectionLastVals == {1, 3, 29, 75, 166}

SectionStreams ==
    UNION {{body \o <<l>> : body \in SeqsOfLen(SectionBodyVals, n), l \in SectionLastVals} :
              n \in 0 .. MaxSectionBody}

\* Mode::Predefined, and Mode::RLE with the byte that follows
PredefinedMode == [mode |-> "Predefined", sym |-> 0]
RleMode(sym) == [mode |-> "RLE", sym |-> sym]

\* the modes of the three tables: all predefined; the RLE codes with one
\* extra bit each (LL 16, OF 1, ML 32); predefined offsets between them
SectionModes ==
    {[ll |-> PredefinedMode, of |-> PredefinedMode, ml |-> PredefinedMode],
     [ll |-> RleMode(16), of |-> RleMode(1), ml |-> RleMode(32)],
     [ll |-> RleMode(16), of |-> PredefinedMode, ml |-> RleMode(32)]}

SectionInputs ==
    [n_seqs : 1 .. MaxSectionSeqs, modes : SectionModes, stream : SectionStreams]

\* update_table (lines 246-280) for Mode::Predefined and Mode::RLE
SectionTable(m, counts, accuracy_log, n) ==
    IF m.mode = "Predefined" THEN PredefinedTable(counts, accuracy_log, n)
    ELSE TableRle(m.sym, n)

\* lines 40-66: self.fse after the three update_table calls
SectionTables(modes) ==
    [ll |-> SectionTable(modes.ll, LL_PREDEFINED, LL_PREDEFINED_LOG, LL_TABLE_SIZE),
     of |-> SectionTable(modes.of, OF_PREDEFINED, OF_PREDEFINED_LOG, OF_TABLE_SIZE),
     ml |-> SectionTable(modes.ml, ML_PREDEFINED, ML_PREDEFINED_LOG, ML_TABLE_SIZE)]

\* what a step of the section leaves: the reader, the result, the three
\* decoder states
Stepped(r, res, ll, of, ml) ==
    [r |-> r, res |-> res, decs |-> [ll |-> ll, of |-> of, ml |-> ml]]

\* lines 79-81: the three Decoder::new calls, each on what the one before
\* it left (ll, of, ml: what Decoder::new returned)
DecodersThird(ll, of, ml) == Stepped(ml.r, ml.res, ll.state, of.state, ml.state)

DecodersSecond(tables, ll, of) ==
    IF of.res # "ok" THEN Stepped(of.r, of.res, ll.state, 0, 0)
    ELSE DecodersThird(ll, of, FseDecoderNew(tables.ml, of.r))

DecodersFirst(tables, ll) ==
    IF ll.res # "ok" THEN Stepped(ll.r, ll.res, 0, 0, 0)
    ELSE DecodersSecond(tables, ll, FseDecoderNew(tables.of, ll.r))

SectionDecoders(tables, r) == DecodersFirst(tables, FseDecoderNew(tables.ll, r))

\* a triple: Sequence { lit_len, match_len, offset }
Sequence(lit_len, match_len, offset) ==
    [lit_len |-> lit_len, match_len |-> match_len, offset |-> offset]

NoSequence == Sequence(0, 0, 0)

\* what decoding a triple leaves: the reader, the result and the triple
Emitted(r, res, seq) == [r |-> r, res |-> res, seq |-> seq]

\* lines 87-93 and 107-113: the three peeks, then decode_of, decode_ml,
\* decode_ll on the symbols they return (offset, match_len, lit_len: what
\* the decode_ functions returned)
TripleLl(offset, match_len, lit_len) ==
    Emitted(lit_len.r, lit_len.res,
            Sequence(lit_len.val, match_len.val, BitsValue(offset.val)))

TripleMl(ll, offset, match_len) ==
    IF match_len.res # "ok" THEN Emitted(match_len.r, match_len.res, NoSequence)
    ELSE TripleLl(offset, match_len, DecodeLl(ll, match_len.r))

TripleOf(ll, ml, offset) ==
    IF offset.res # "ok" THEN Emitted(offset.r, offset.res, NoSequence)
    ELSE TripleMl(ll, offset, DecodeMl(ml, offset.r))

TriplePeeked(ll, of, ml, r, overflow_checks) ==
    IF ll.res # "ok" \/ of.res # "ok" \/ ml.res # "ok"
    THEN Emitted(r, "panic", NoSequence)
    ELSE TripleOf(ll.symbol, ml.symbol, DecodeOf(of.symbol, r, overflow_checks))

SectionTriple(tables, decs, r, overflow_checks) ==
    TriplePeeked(FsePeek(tables.ll, decs.ll), FsePeek(tables.of, decs.of),
                 FsePeek(tables.ml, decs.ml), r, overflow_checks)

\* lines 103-105: ll_dec.update, ml_dec.update, of_dec.update, each on
\* what the one before it left
UpdateThird(ll, ml, of) == Stepped(of.r, of.res, ll.state, of.state, ml.state)

UpdateSecond(tables, decs, ll, ml, overflow_checks) ==
    IF ml.res # "ok" THEN Stepped(ml.r, ml.res, ll.state, decs.of, decs.ml)
    ELSE UpdateThird(ll, ml, FseUpdate(tables.of, decs.of, ml.r, overflow_checks))

UpdateFirst(tables, decs, ll, overflow_checks) ==
    IF ll.res # "ok" THEN Stepped(ll.r, ll.res, decs.ll, decs.of, decs.ml)
    ELSE UpdateSecond(tables, decs, ll,
                      FseUpdate(tables.ml, decs.ml, ll.r, overflow_checks),
                      overflow_checks)

\* the same with the offset state refreshed before the match length state
OfBeforeMlThird(ll, of, ml) == Stepped(ml.r, ml.res, ll.state, of.state, ml.state)

OfBeforeMlSecond(tables, decs, ll, of, overflow_checks) ==
    IF of.res # "ok" THEN Stepped(of.r, of.res, ll.state, decs.of, decs.ml)
    ELSE OfBeforeMlThird(ll, of, FseUpdate(tables.ml, decs.ml, of.r, overflow_checks))

OfBeforeMlFirst(tables, decs, ll, overflow_checks) ==
    IF ll.res # "ok" THEN Stepped(ll.r, ll.res, decs.ll, decs.of, decs.ml)
    ELSE OfBeforeMlSecond(tables, decs, ll,
                          FseUpdate(tables.of, decs.of, ll.r, overflow_checks),
                          overflow_checks)

\* an update that refreshes the offset state before the match length state
SectionUpdateOfFirst(tables, decs, r, overflow_checks) ==
    OfBeforeMlFirst(tables, decs, FseUpdate(tables.ll, decs.ll, r, overflow_checks),
                    overflow_checks)

SectionUpdate(tables, decs, r, overflow_checks) ==
    UpdateFirst(tables, decs, FseUpdate(tables.ll, decs.ll, r, overflow_checks),
                overflow_checks)

\* a check that accepts whatever is left in the stream
ExtraBitsIgnored(r) == FALSE

\* line 129: r.bits_remaining() > 0
ExtraBits(r) == BitsRemaining(r) > 0

besideSection == <<src, tail, shifts, shifted, window, flushed_idx, last, frame,
                   checksum, huff, offset_hist, literals_buf, literals_idx,
                   sequences_len, seq_i, lit_idx, blk, frame_no, block_no,
                   produced, written, expected, built, used, recent, call,
                   input, dtable>>

\* the history of a step: what it was, how it ended, the reader and the
\* decoder states it started from, the build it ran in, and the updates of
\* the decoder states so far
SectionStep(op, res, overflow_checks, updates) ==
    [op |-> op, res |-> res, r |-> reader, decs |-> decoders,
     overflow_checks |-> overflow_checks, updates |-> updates]

\* a step ends the section with res when res is not "ok"
SectionEnds(res) ==
    IF res = "panic" THEN Panic("index out of bounds, assertion or arithmetic overflow")
    ELSE Fail(res)

\* lines 40-71: the three update_table calls
SeqTables ==
    /\ pc = "seq_tables"
    /\ fse' = SectionTables(input.modes)
    /\ pc' = "seq_decoders"
    /\ out' = SectionStep("tables", "ok", FALSE, 0)
    /\ UNCHANGED <<err, reader, decoders, sequences, sequences_idx, besideSection>>

\* lines 73-85: ReverseBitReader::new, the three Decoder::new calls,
\* sequences_idx and the slice sequences_buf[..sequences_idx]
SeqDecoders ==
    /\ pc = "seq_decoders"
    /\ IF RbrNewResult(input.stream) # "ok"
       THEN /\ Fail(RbrNewResult(input.stream))
            /\ out' = SectionStep("decoders", RbrNewResult(input.stream), FALSE, 0)
            /\ UNCHANGED <<reader, decoders, sequences_idx>>
       ELSE LET made == SectionDecoders(fse, RbrNew(input.stream))
            IN  /\ reader' = made.r
                /\ out' = [SectionStep("decoders", made.res, FALSE, 0)
                              EXCEPT !.r = RbrNew(input.stream)]
                /\ IF made.res # "ok"
                   THEN SectionEnds(made.res) /\ UNCHANGED <<decoders, sequences_idx>>
                   ELSE /\ decoders' = made.decs
                        /\ sequences_idx' = input.n_seqs
                        /\ IF input.n_seqs > sequences_len
                           THEN Panic("SliceIndex")
                           ELSE pc' = "seq_triple" /\ err' = err
    /\ UNCHANGED <<fse, sequences, besideSection>>

\* lines 87-100 and 107-120: peek the three symbols, decode the triple,
\* store it at dst[dst_idx]
SeqTriple ==
    /\ pc = "seq_triple"
    /\ \E overflow_checks \in BOOLEAN :
         LET made == SectionTriple(fse, decoders, reader, overflow_checks)
         IN  /\ reader' = made.r
             /\ out' = SectionStep("triple", made.res, overflow_checks, out.updates)
             /\ IF made.res # "ok"
                THEN SectionEnds(made.res) /\ sequences' = sequences
                ELSE /\ sequences' = Append(sequences, made.seq)
                     /\ pc' = IF Len(sequences) + 1 < sequences_idx
                              THEN "seq_update" ELSE "seq_end"
                     /\ err' = err
    /\ UNCHANGED <<fse, decoders, sequences_idx, besideSection>>

\* lines 102-105: the next iteration of `for _ in 1..header.n_seqs` begins
\* with the three updates
SeqUpdate ==
    /\ pc = "seq_update"
    /\ \E overflow_checks \in BOOLEAN :
         LET made == SectionUpdate(fse, decoders, reader, overflow_checks)
         IN  /\ reader' = made.r
             /\ decoders' = made.decs
             /\ IF made.res # "ok"
                THEN /\ SectionEnds(made.res)
                     /\ out' = SectionStep("update", made.res, overflow_checks, out.updates)
                ELSE /\ pc' = "seq_triple"
                     /\ err' = err
                     /\ out' = SectionStep("update", "ok", overflow_checks, out.updates + 1)
    /\ UNCHANGED <<fse, sequences, sequences_idx, besideSection>>

\* lines 129-133: the bits left over, then execute_sequences
SeqEnd ==
    /\ pc = "seq_end"
    /\ IF ExtraBits(reader)
       THEN Fail("ExtraBitsInStream")
       ELSE pc' = "exec" /\ err' = err
    /\ out' = SectionStep("end", IF ExtraBits(reader) THEN "ExtraBitsInStream" ELSE "ok",
                          FALSE, out.updates)
    /\ UNCHANGED <<fse, reader, decoders, sequences, sequences_idx, besideSection>>

NextSection ==
    \/ SeqTables
    \/ SeqDecoders
    \/ SeqTriple
    \/ SeqUpdate
    \/ SeqEnd

InitSection == Constructed("seq_tables") /\ input \in SectionInputs

SpecSection == InitSection /\ [][NextSection]_vars

\* ------------------------------------------------------------------------
\* The order of the reads of a sequences section
\* ------------------------------------------------------------------------

NoStates == [ll |-> 0, of |-> 0, ml |-> 0]

\* the reader and the decoder states after Decoder::new on the tables named
\* by order, one after the other, from the reader r
RECURSIVE NewInOrder(_, _, _, _)
RECURSIVE NewNext(_, _, _, _)
NewInOrder(tables, order, r, decs) ==
    IF order = <<>> THEN [r |-> r, decs |-> decs]
    ELSE NewNext(tables, order, decs, FseDecoderNew(tables[Head(order)], r))
NewNext(tables, order, decs, made) ==
    NewInOrder(tables, Tail(order), made.r, [decs EXCEPT ![Head(order)] = made.state])

\* the reader and the decoder states after update on the decoders named by
\* order, one after the other
RECURSIVE UpdateInOrder(_, _, _, _, _)
RECURSIVE UpdateNext(_, _, _, _, _)
UpdateInOrder(tables, order, r, decs, overflow_checks) ==
    IF order = <<>> THEN [r |-> r, decs |-> decs]
    ELSE UpdateNext(tables, order, decs, overflow_checks,
                    FseUpdate(tables[Head(order)], decs[Head(order)], r, overflow_checks))
UpdateNext(tables, order, decs, overflow_checks, made) ==
    UpdateInOrder(tables, Tail(order), made.r,
                  [decs EXCEPT ![Head(order)] = made.state], overflow_checks)

\* the value of the code of one kind with its extra bits
DecodeKind(kind, code, r, overflow_checks) ==
    IF kind = "ll" THEN DecodeLl(code, r)
    ELSE IF kind = "ml" THEN DecodeMl(code, r)
    ELSE DecodeOf(code, r, overflow_checks)

ValueOfKind(kind, made) == IF kind = "of" THEN BitsValue(made.val) ELSE made.val

\* the reader and the three values after the extra bits of the codes have
\* been read in the order named
RECURSIVE ExtraInOrder(_, _, _, _, _)
RECURSIVE ExtraNext(_, _, _, _, _)
ExtraInOrder(codes, order, r, vals, overflow_checks) ==
    IF order = <<>> THEN [r |-> r, vals |-> vals]
    ELSE ExtraNext(codes, order, vals, overflow_checks,
                   DecodeKind(Head(order), codes[Head(order)], r, overflow_checks))
ExtraNext(codes, order, vals, overflow_checks, made) ==
    ExtraInOrder(codes, Tail(order), made.r,
                 [vals EXCEPT ![Head(order)] = ValueOfKind(Head(order), made)],
                 overflow_checks)

\* the symbols the three decoders stand on
CodesAt(tables, decs) ==
    [ll |-> EntryAt(tables.ll, decs.ll).entry.symbol,
     of |-> EntryAt(tables.of, decs.of).entry.symbol,
     ml |-> EntryAt(tables.ml, decs.ml).entry.symbol]

StatesAgree(rule) == decoders = rule.decs /\ reader = rule.r

TripleAgrees(rule) ==
    /\ sequences[Len(sequences)] = Sequence(rule.vals.ll, rule.vals.ml, rule.vals.of)
    /\ reader = rule.r

\* the three decoders are initialised in the order named
InitOrder(order) ==
    (out.op = "decoders" /\ out.res = "ok") =>
        StatesAgree(NewInOrder(fse, order, out.r, NoStates))

\* the extra bits of a triple are read in the order named, from the states
\* the decoders stand on
ExtraOrder(order) ==
    (out.op = "triple" /\ out.res = "ok") =>
        /\ decoders = out.decs
        /\ TripleAgrees(ExtraInOrder(CodesAt(fse, out.decs), order, out.r, NoStates,
                                     out.overflow_checks))

\* the decoder states are refreshed in the order named
RefreshOrder(order) ==
    (out.op = "update" /\ out.res = "ok") =>
        StatesAgree(UpdateInOrder(fse, order, out.r, out.decs, out.overflow_checks))

\* the states are refreshed after every triple but the last
RefreshedBetween ==
    /\ out.op = "update" => Len(sequences) < input.n_seqs
    /\ (out.op = "triple" /\ out.res = "ok" /\ Len(sequences) < input.n_seqs)
           => pc = "seq_update"
    /\ pc \in {"seq_end", "exec"} => Len(sequences) = input.n_seqs

\* C23 as stated: the decoders are initialised in the order LL, OF, ML, the
\* extra bits of each sequence are read in the order offset, match length,
\* literal length, and after every sequence except the last the states are
\* refreshed in the order ML, LL, OF.
C23_RefreshMlLlOf ==
    /\ InitOrder(<<"ll", "of", "ml">>)
    /\ ExtraOrder(<<"of", "ml", "ll">>)
    /\ RefreshOrder(<<"ml", "ll", "of">>)
    /\ RefreshedBetween

\* C23, amended: the same, the states being refreshed in the order LL,
\* then ML, then OF.
C23_RefreshLlMlOf ==
    /\ InitOrder(<<"ll", "of", "ml">>)
    /\ ExtraOrder(<<"of", "ml", "ll">>)
    /\ RefreshOrder(<<"ll", "ml", "of">>)
    /\ RefreshedBetween

\* the three states have been refreshed between two triples decoded with
\* the predefined tables, on bits that tell the orders apart
C23_Witness ==
    /\ pc = "seq_triple"
    /\ out.op = "update"
    /\ input.modes.ml.mode = "Predefined"
    /\ Len(sequences) = 1
    /\ decoders # UpdateInOrder(fse, <<"ml", "ll", "of">>, out.r, out.decs,
                                out.overflow_checks).decs


\* ------------------------------------------------------------------------
\* The triples and the refreshes of a sequences section
\* ------------------------------------------------------------------------

\* the refreshes done so far, against the triples decoded so far
RefreshesFollowTriples ==
    /\ (out.op = "triple" /\ out.res = "ok") => out.updates = Len(sequences) - 1
    /\ (out.op = "update" /\ out.res = "ok") => out.updates = Len(sequences)
    /\ out.op = "end" => /\ Len(sequences) = input.n_seqs
                         /\ out.updates = input.n_seqs - 1

\* the section ends on the bits left in the reverse reader
AcceptedOnNoBitsLeft ==
    /\ pc = "exec" => /\ out.op = "end"
                      /\ BitsRemaining(reader) = 0
    /\ (out.op = "end" /\ BitsRemaining(reader) # 0)
           => pc = "error" /\ err = "ExtraBitsInStream"

\* C24: a sequences section of n_seqs >= 1 sequences decodes exactly n_seqs
\* triples, each from the states the decoders stand on before they are
\* refreshed, refreshes the states exactly n_seqs - 1 times, never after the
\* last triple, and is accepted only when the reverse reader has no bit left;
\* otherwise it returns ExtraBitsInStream and execute_sequences is not run.
C24_TriplesThenRefresh ==
    input.n_seqs >= 1 =>
        /\ Len(sequences) <= input.n_seqs
        /\ (out.op = "triple" /\ out.res = "ok") =>
               /\ decoders = out.decs
               /\ TripleAgrees(ExtraInOrder(CodesAt(fse, decoders), <<"of", "ml", "ll">>,
                                            out.r, NoStates, out.overflow_checks))
        /\ RefreshesFollowTriples
        /\ AcceptedOnNoBitsLeft

\* a section of three sequences has been accepted after two refreshes
C24_Witness ==
    /\ pc = "exec"
    /\ input.n_seqs = 3
    /\ Len(sequences) = 3
    /\ out.updates = 2

\* ------------------------------------------------------------------------
\* Context::execute_sequences on a given literals buffer and given
\* sequences (sequence_execution.rs)
\* ------------------------------------------------------------------------

\* the most sequences of a block that is executed
MaxExecSeqs == 2

\* the literals abcde
Abcde == <<97, 98, 99, 100, 101>>

\* the literals buffers: the prefixes of 1 2 3 4 (at most MAX_BLOCK_SIZE
\* bytes, as literals_section leaves them), and abcde
ExecuteLiterals ==
    {[i \in 1 .. n |-> i] : n \in 0 .. MAX_BLOCK_SIZE} \cup {Abcde}

\* the sequences: no literals, two, or as many as abcde; a repeat offset
\* code (1, 3) or a new offset (4, 5 for the offsets 1, 2); the shortest
\* and the longest match
ExecuteSeqs ==
    [lit_len : {0, 2, Len(Abcde)}, offset : {1, 3, 4, 5},
     match_len : {MIN_MATCH, MAX_BLOCK_SIZE}]

ExecuteInputs ==
    [literals : ExecuteLiterals,
     seqs : UNION {[1 .. n -> ExecuteSeqs] : n \in 0 .. MaxExecSeqs}]

\* what literals_section and sequence_section leave for execute_sequences:
\* literals_buf[..literals_idx] and sequences_buf[..sequences_idx]
ExecuteLoad ==
    /\ pc = "exec_load"
    /\ literals_buf' = input.literals
    /\ literals_idx' = Len(input.literals)
    /\ sequences_idx' = Len(input.seqs)
    /\ pc' = "exec"
    /\ UNCHANGED <<err, src, tail, window, flushed_idx, last, frame, checksum,
                   huff, fse, offset_hist, sequences_len, seq_i, lit_idx, blk,
                   frame_no, block_no, produced, written, expected, built, used,
                   recent, call, shifts, shifted, libVars>>

\* the entry of sequences_buf the loop stands on
ExecuteNext ==
    IF seq_i < Len(input.seqs) THEN {input.seqs[seq_i + 1]} ELSE {}

ExecuteStep == ExecStepOn(ExecuteNext)

NextExecute ==
    \/ ExecuteLoad
    \/ ExecuteStep
    \/ ExecEnd

InitExecute == Constructed("exec_load") /\ input \in ExecuteInputs

SpecExecute == InitExecute /\ [][NextExecute]_vars

\* the sum of the first n literal lengths
RECURSIVE LitLenSum(_, _)
LitLenSum(seqs, n) ==
    IF n = 0 THEN 0 ELSE LitLenSum(seqs, n - 1) + seqs[n].lit_len

\* n bytes copied back one at a time from offset bytes behind the end
RECURSIVE CopiedBack(_, _, _)
CopiedBack(bytes, offset, n) ==
    IF n = 0 \/ offset \notin 1 .. Len(bytes) THEN bytes
    ELSE CopiedBack(Append(bytes, bytes[Len(bytes) - offset + 1]), offset, n - 1)

\* the output of the sequences from the i-th on: for each the next lit_len
\* literals and the match, and the unused literals after the last
RECURSIVE ExecutedFrom(_, _, _, _, _, _)
ExecutedFrom(literals, seqs, i, bytes, at, history) ==
    IF i > Len(seqs)
    THEN bytes \o SubSeq(literals, at + 1, Len(literals))
    ELSE ExecutedFrom(literals, seqs, i + 1,
                      CopiedBack(bytes \o SubSeq(literals, at + 1, at + seqs[i].lit_len),
                                 NextOffset(history, seqs[i].offset, seqs[i].lit_len),
                                 seqs[i].match_len),
                      at + seqs[i].lit_len,
                      UpdateHistory(history, seqs[i].offset, seqs[i].lit_len))

Executed(literals, seqs) ==
    ExecutedFrom(literals, seqs, 1, <<>>, 0, InitialOffsetHist)

\* the bytes of a sequence without the matches: the literals alone
RECURSIVE MatchLenSum(_, _)
MatchLenSum(seqs, n) ==
    IF n = 0 THEN 0 ELSE MatchLenSum(seqs, n - 1) + seqs[n].match_len

\* the loop stands on a sequence whose literals run over the end of the buffer
Overreads ==
    /\ seq_i < Len(input.seqs)
    /\ lit_idx = LitLenSum(input.seqs, seq_i)
    /\ LitLenSum(input.seqs, seq_i + 1) > Len(input.literals)

\* C25: execute_sequences appends, for each sequence in order, the next
\* lit_len literals and then match_len bytes copied back at the resolved
\* offset, and after the last sequence the unused literals, so that every
\* literal is appended once and in order; it returns LiteralsBufferOverread
\* when the literal lengths run over the buffer, and leaves literals_idx = 0
\* on success.  abcde with the sequence (5, offset code 4, 3) gives abcdeeee.
C25_ExecuteSequences ==
    /\ pc = "block_done" =>
          /\ produced = Executed(input.literals, input.seqs)
          /\ Len(produced) = Len(input.literals)
                               + MatchLenSum(input.seqs, Len(input.seqs))
          /\ literals_idx = 0
    /\ LitLenSum(input.seqs, Len(input.seqs)) > Len(input.literals)
          => pc # "block_done"
    /\ (pc \in {"error", "panic"} /\ Overreads) => err = "LiteralsBufferOverread"
    /\ err = "LiteralsBufferOverread" => (pc = "error" /\ Overreads)
    /\ (/\ pc = "block_done"
        /\ input.literals = Abcde
        /\ input.seqs = <<[lit_len |-> 5, offset |-> 4, match_len |-> 3]>>)
          => produced = <<97, 98, 99, 100, 101, 101, 101, 101>>

\* abcde and the sequence (5, offset code 4, 3) have been executed
C25_Witness ==
    /\ pc = "block_done"
    /\ input.literals = Abcde
    /\ input.seqs = <<[lit_len |-> 5, offset |-> 4, match_len |-> 3]>>
    /\ Len(produced) = 8

\* ------------------------------------------------------------------------
\* The match lengths decode_ml produces, against the block size
\* ------------------------------------------------------------------------

\* MAX_BLOCK_SIZE as lib.rs:24 has it, 128 * 1024 (the window of this
\* model is scaled down, the tables of decode_ml are not)
BLOCK_SIZE_BYTES == 131072

\* C27: every match length the sequence decoder produces (the baseline of
\* a match-length code 0..52 plus its extra bits) is <= MAX_BLOCK_SIZE, so
\* the assertion n_bytes <= MAX_BLOCK_SIZE at the top of copy_within holds
\* for every decodable sequence.
C27_MatchLengthWithinBlock ==
    (/\ out.op = "decode"
     /\ out.res = "ok"
     /\ input.kind = "ml"
     /\ input.code \in 0 .. 52)
        => out.val <= BLOCK_SIZE_BYTES

\* ------------------------------------------------------------------------
\* An rzstd_fse::Decoder on a built table: Decoder::new, then updates
\* ------------------------------------------------------------------------

\* the symbols of the tables DecodingTable::rle builds
RleSymbols == {0, 35}

\* the bit streams the decoder reads its states from
DecoderStreams ==
    {<<>>, <<0>>, <<1>>, <<29>>, <<166, 29>>, <<75, 166, 3>>,
     <<255, 255, 255>>, <<0, 0, 128>>, <<29, 166, 29, 75>>}

DecoderInputs ==
    [table : {[mode |-> "dist", dist |-> d, sym |-> 0] : d \in DistInputs}
                \cup {[mode |-> "rle", dist |-> <<>>, sym |-> s] : s \in RleSymbols},
     stream : DecoderStreams]

besideDecoder == <<src, tail, shifts, shifted, window, flushed_idx, last, frame,
                   checksum, huff, fse, offset_hist, literals_buf, literals_idx,
                   sequences_len, sequences_idx, seq_i, lit_idx, blk, frame_no,
                   block_no, produced, written, expected, built, used, recent,
                   call, input, sequences>>

\* the decoder's step returned res
DecoderEnds(res) ==
    IF res = "ok" THEN err' = err
    ELSE IF res = "panic" THEN Panic("index out of bounds, assertion or arithmetic overflow")
    ELSE Fail(res)

\* the table a distribution gives, once from_distribution has run (made)
DecoderTableFrom(made, accuracy_log) ==
    /\ dtable' = IF made.res = "ok"
                 THEN TableFrom(made.t, accuracy_log, LL_TABLE_SIZE) ELSE dtable
    /\ out' = [op |-> "table", res |-> made.res, before |-> 0]
    /\ DecoderEnds(made.res)
    /\ IF made.res = "ok" THEN pc' = "dec_new" ELSE TRUE

\* DecodingTable::from_distribution or DecodingTable::rle
DecoderTable ==
    /\ pc = "dec_table"
    /\ IF input.table.mode = "dist"
       THEN DecoderTableFrom(FromDistribution(input.table.dist),
                             input.table.dist.accuracy_log)
       ELSE /\ dtable' = TableRle(input.table.sym, LL_TABLE_SIZE)
            /\ out' = [op |-> "table", res |-> "ok", before |-> 0]
            /\ pc' = "dec_new"
            /\ err' = err
    /\ UNCHANGED <<reader, decoders, besideDecoder>>

\* the decoder Decoder::new made (made)
DecoderMade(made) ==
    /\ reader' = made.r
    /\ decoders' = IF made.res = "ok" THEN made.state ELSE decoders
    /\ out' = [op |-> "new", res |-> made.res, before |-> 0]
    /\ DecoderEnds(made.res)
    /\ IF made.res = "ok" THEN pc' = "dec_update" ELSE TRUE

\* ReverseBitReader::new(input.stream), then Decoder::new(&table, &mut r)
DecoderNew ==
    /\ pc = "dec_new"
    /\ IF RbrNewResult(input.stream) # "ok"
       THEN /\ Fail(RbrNewResult(input.stream))
            /\ out' = [op |-> "new", res |-> RbrNewResult(input.stream), before |-> 0]
            /\ UNCHANGED <<reader, decoders>>
       ELSE DecoderMade(FseDecoderNew(dtable, RbrNew(input.stream)))
    /\ UNCHANGED <<dtable, besideDecoder>>

\* the decoder after Decoder::update returned made
DecoderUpdated(made) ==
    /\ reader' = made.r
    /\ decoders' = made.state
    /\ out' = [op |-> "update", res |-> made.res, before |-> decoders]
    /\ DecoderEnds(made.res)
    /\ IF made.res = "ok" THEN pc' = pc ELSE TRUE

\* Decoder::update(&mut r)
DecoderUpdate ==
    /\ pc = "dec_update"
    /\ \E overflow_checks \in BOOLEAN :
         DecoderUpdated(FseUpdate(dtable, decoders, reader, overflow_checks))
    /\ UNCHANGED <<dtable, besideDecoder>>

NextDecoder ==
    \/ DecoderTable
    \/ DecoderNew
    \/ DecoderUpdate

InitDecoder == Constructed("dec_table") /\ input \in DecoderInputs

SpecDecoder == InitDecoder /\ [][NextDecoder]_vars

\* every entry of the filled part sends every value of its n_bits bits to a
\* state below the table size
BaselinesStayBelowSize ==
    \A i \in DOMAIN dtable.entries :
        dtable.entries[i].baseline + Pow2(dtable.entries[i].n_bits) - 1
            < Pow2(dtable.accuracy_log)

\* C28: on every table built by from_distribution or rle and every bit
\* string, the state of a Decoder after Decoder::new and after every
\* successful update is < 2^accuracy_log, an index into the filled part of
\* the table: each entry's baseline plus any value of n_bits bits stays
\* below the table size.
C28_StateBelowTableSize ==
    /\ pc \in {"dec_new", "dec_update"} => BaselinesStayBelowSize
    /\ pc = "dec_update" =>
          /\ decoders < Pow2(dtable.accuracy_log)
          /\ decoders \in DOMAIN dtable.entries

\* an update has moved a decoder to another state of a table built from a
\* distribution with a low-probability symbol
C28_Witness ==
    /\ pc = "dec_update"
    /\ out.op = "update"
    /\ out.res = "ok"
    /\ input.table.mode = "dist"
    /\ input.table.dist.has_low_prob
    /\ decoders # out.before
    /\ dtable.entries[out.before].n_bits > 0

\* ------------------------------------------------------------------------
\* decode() on a finite input: the input holds at most MaxFrames magic
\* numbers (MagicInputs) and, in a frame, at most MaxLiveBlocks block
\* headers that are followed by their block; the last-block bit of a block
\* is whatever its header says.  Every step of decode that can be taken is
\* taken in the end.
\* ------------------------------------------------------------------------

MaxLiveBlocks == 2

LiveBytes == {0}

\* the input holds another block
LiveBlockLeft == block_no < MaxLiveBlocks

LiveRaw == LiveBlockLeft /\ BlockRawOn(LiveBytes, BOOLEAN)
LiveRLE == LiveBlockLeft /\ BlockRLEOn(LiveBytes, BOOLEAN)
LiveCompressed == LiveBlockLeft /\ BlockCompressed

NextLive ==
    \/ ReadMagic
    \/ ReadFrameHeader
    \/ BlockHeaderFails
    \/ LiveRaw
    \/ LiveRLE
    \/ LiveCompressed
    \/ LiteralsSection
    \/ SequenceSection
    \/ Flush
    \/ Checksum
    \/ DecodeAgain

InitLive == Fresh("magic")

SpecLive == InitLive /\ [][NextLive]_vars /\ WF_vars(NextLive)

\* decode has ended: it returned Ok(()), returned an error, or panicked
DecodeEnds == <>(pc \in {"done", "error", "panic"})

\* the block loop is left at the block whose last-block bit is set
LeftAtLastBlock == [][(pc = "block_done" /\ last) => pc' # "block"]_vars

\* C29: on every finite input decode eventually returns, Ok or an error:
\* no loop runs on without consuming input.
C29_DecodeReturns == <>(pc \in {"done", "error"})

\* C30: a frame whose window size (from the window descriptor, or the
\* content size of a single-segment frame) plus MAX_BLOCK_SIZE exceeds the
\* length of the caller's window buffer is rejected by decode with a typed
\* error: the assertion buf.len() >= size + MAX_BLOCK_SIZE of Window::reset
\* is never violated.
C30_WindowResetAssertHolds ==
    /\ ~(pc = "panic" /\ err = "WindowResetAssert")
    /\ pc = "block" => BufLenOf(window) >= window.size + MAX_BLOCK_SIZE
====
